---- MODULE Spec2Model ----
(***************************************************************************)
(* A model of the SambaNova RAG service: the two request throttlers        *)
(* (SambaNovaProvider.enforceRateLimit, SupabaseRAGSystem.enforceRateLimit)*)
(* the POST /query handler with its document selection, MastraRAGSystem    *)
(* .query, and SupabaseRAGSystem.query with its similarity ranking.        *)
(*                                                                         *)
(* Time is in milliseconds.  JavaScript runs every callback to completion, *)
(* so an action is the code between two awaits; a task suspended in        *)
(* setTimeout resumes at any clock value at or after its deadline.         *)
(***************************************************************************)
EXTENDS Integers, Sequences, FiniteSets, TLC

----------------------------------------------------------------------------
(* Program constants *)

WINDOW_MS == 60000
RATE_LIMIT_DELAY_MS == 8000
MAX_REQUESTS_PER_MINUTE == 5
MAX_CONTEXT_DOCUMENTS == 3
SIMILARITY_THRESHOLD == 300
EXCERPT_CHARS == 1000
FILE_NAME_CHARS == 255

(* Bounds of the model *)

MaxCalls == 3
MaxTime == 132000
SeqMaxCalls == 6
SeqMaxTime == 136000
RankMaxCalls == 3
RankMaxTime == 84000
QueryMaxTime == 140000
LiveMaxCalls == 2
DocsMaxOps == 2
DocsMaxTime == 132000
ConcMaxOps == 2
ConcMaxTime == 76000
ReadsMaxOps == 1
LongContentLength == 1001
LiveMaxTime == 192000
AssembleMaxTime == 76000
StartTime == 68000
TickSet == {4000}

Tasks == {"t1", "t2"}
SeqTask == "t1"

----------------------------------------------------------------------------
VARIABLES
    now,                  \* Date.now()
    lastRequestTime,      \* SambaNovaProvider.lastRequestTime
    requestCount,         \* SambaNovaProvider.requestCount
    lastResetTime,        \* SambaNovaProvider.lastResetTime
    rateLimitDelayMs,     \* SambaNovaProvider.rateLimitDelayMs
    maxRequestsPerMinute, \* SambaNovaProvider.maxRequestsPerMinute
    ragLastRequestTime,   \* SupabaseRAGSystem.lastRequestTime
    config,               \* SupabaseRAGSystem.config
    task,                 \* per task: position in the operation it runs
    permits,              \* history: the calls each throttler recorded, each
                          \* followed by the caller's fetch
    store,                \* the documents table, as getAllDocuments returns it
    documents,            \* SupabaseRAGSystem.documents
    embeddings,           \* SupabaseRAGSystem.embeddings
    rq,                   \* per task: locals of SupabaseRAGSystem.query
    hq,                   \* per task: locals of the POST /query handler
    bucket,               \* the storage bucket: the paths of the files it holds
    dq,                   \* per task: locals of uploadFile / deleteDocument
                          \* and of the routes that call them
    server                \* the process: CONFIG.ENV, the position of
                          \* startServer, ragSystem, mastraRagSystem

throttleVars == <<lastRequestTime, requestCount, lastResetTime, rateLimitDelayMs,
                  maxRequestsPerMinute, ragLastRequestTime, config>>
providerVars == <<lastRequestTime, requestCount, lastResetTime>>
dataVars == <<store, documents, embeddings, bucket>>

vars == <<now, lastRequestTime, requestCount, lastResetTime, rateLimitDelayMs,
          maxRequestsPerMinute, ragLastRequestTime, config, task, permits,
          store, documents, embeddings, rq, hq, bucket, dq, server>>

----------------------------------------------------------------------------
(* External calls and the throttler instance each one acquires on *)

ProviderCalls == {"doGenerate", "doEmbed"}
RagCalls == {"getSambaNovaEmbeddings", "getSambaNovaResponse"}

IdleTask ==
    [op |-> "idle", phase |-> "none", call |-> "none", pc |-> "none",
     tslr |-> 0, wakeAt |-> 0, entered |-> 0, slept |-> FALSE,
     waitTime |-> 0, delayNeeded |-> 0, capReached |-> FALSE,
     acquired |-> "none", ret |-> "none", issued |-> {}]

(* Calls that entered a throttler and have not been recorded yet *)
Pending == {t \in Tasks : task[t].pc \in {"capWait", "delayWait"}}
InFlight == Len(permits) + Cardinality(Pending)

----------------------------------------------------------------------------
(* SambaNovaProvider.enforceRateLimit *)

WindowElapsed(n, reset) == n - reset > WINDOW_MS

CapReachedOffByOne(count, max) == count > max

CapReached(count, max) == count >= max

CapWaitTime(n, reset) == WINDOW_MS - (n - reset)

DelayNeeded(delay, tslr) == delay - tslr

(* lines 64-65, then the fetch the caller issues when the await returns *)
ProviderRecord(t, tk, count, reset) ==
    /\ lastRequestTime' = now
    /\ requestCount' = count + 1
    /\ lastResetTime' = reset
    /\ permits' = Append(permits, [inst |-> "provider", time |-> now,
                                   window |-> reset])
    /\ task' = [task EXCEPT ![t] = [tk EXCEPT !.pc = "fetch",
                                              !.acquired = "provider",
                                              !.issued = @ \cup {tk.call}]]

(* lines 57-65: the minimum delay, on the value computed at entry *)
ProviderDelay(t, tk, count, reset) ==
    IF tk.tslr < rateLimitDelayMs
    THEN /\ task' = [task EXCEPT ![t] =
                        [tk EXCEPT !.pc = "delayWait", !.slept = TRUE,
                                   !.delayNeeded = DelayNeeded(rateLimitDelayMs, tk.tslr),
                                   !.wakeAt = now + DelayNeeded(rateLimitDelayMs, tk.tslr)]]
         /\ requestCount' = count
         /\ lastResetTime' = reset
         /\ UNCHANGED <<lastRequestTime, permits>>
    ELSE ProviderRecord(t, tk, count, reset)

(* lines 37-55: from the call to the first await *)
ProviderEnforceRateLimit(t, tk0) ==
    LET elapsed == WindowElapsed(now, lastResetTime)
        count == IF elapsed THEN 0 ELSE requestCount
        reset == IF elapsed THEN now ELSE lastResetTime
        tk == [tk0 EXCEPT !.tslr = now - lastRequestTime, !.entered = now,
                          !.slept = FALSE,
                          !.capReached = CapReached(count, maxRequestsPerMinute)]
    IN  IF CapReached(count, maxRequestsPerMinute) /\ CapWaitTime(now, reset) > 0
        THEN /\ task' = [task EXCEPT ![t] =
                            [tk EXCEPT !.pc = "capWait", !.slept = TRUE,
                                       !.waitTime = CapWaitTime(now, reset),
                                       !.wakeAt = now + CapWaitTime(now, reset)]]
             /\ requestCount' = count
             /\ lastResetTime' = reset
             /\ UNCHANGED <<lastRequestTime, permits>>
        ELSE ProviderDelay(t, tk, count, reset)

ProviderCapWakeWaitsAgain(t) ==
    /\ task[t].pc = "capWait"
    /\ now >= task[t].wakeAt
    /\ task' = [task EXCEPT ![t].wakeAt = now + WINDOW_MS]
    /\ UNCHANGED <<server, now, throttleVars, permits, dataVars, dq, rq, hq>>

(* lines 52-65: the timer of the per-minute wait fires *)
ProviderCapWake(t) ==
    /\ task[t].pc = "capWait"
    /\ now >= task[t].wakeAt
    /\ ProviderDelay(t, task[t], 0, now)
    /\ UNCHANGED <<server, now, rateLimitDelayMs, maxRequestsPerMinute,
                   ragLastRequestTime, config, dataVars, dq, rq, hq>>

(* lines 62-65: the timer of the minimum delay fires *)
ProviderDelayWake(t) ==
    /\ task[t].pc = "delayWait"
    /\ task[t].call \in ProviderCalls
    /\ now >= task[t].wakeAt
    /\ ProviderRecord(t, task[t], requestCount, lastResetTime)
    /\ UNCHANGED <<server, now, rateLimitDelayMs, maxRequestsPerMinute,
                   ragLastRequestTime, config, dataVars, dq, rq, hq>>

----------------------------------------------------------------------------
(* SupabaseRAGSystem.enforceRateLimit *)

RagRecord(t, tk) ==
    /\ ragLastRequestTime' = now
    /\ permits' = Append(permits, [inst |-> "rag", time |-> now, window |-> 0])
    /\ task' = [task EXCEPT ![t] = [tk EXCEPT !.pc = "fetch",
                                              !.acquired = "rag",
                                              !.issued = @ \cup {tk.call}]]

RagEnforceRateLimit(t, tk0) ==
    LET tk == [tk0 EXCEPT !.tslr = now - ragLastRequestTime, !.entered = now,
                          !.slept = FALSE]
    IN  IF tk.tslr < config.rateLimitDelayMs
        THEN /\ task' = [task EXCEPT ![t] =
                            [tk EXCEPT !.pc = "delayWait", !.slept = TRUE,
                                       !.delayNeeded = DelayNeeded(config.rateLimitDelayMs, tk.tslr),
                                       !.wakeAt = now + DelayNeeded(config.rateLimitDelayMs, tk.tslr)]]
             /\ UNCHANGED <<ragLastRequestTime, permits>>
        ELSE RagRecord(t, tk)

RagDelayWake(t) ==
    /\ task[t].pc = "delayWait"
    /\ task[t].call \in RagCalls
    /\ now >= task[t].wakeAt
    /\ RagRecord(t, task[t])
    /\ UNCHANGED <<server, now, lastRequestTime, requestCount, lastResetTime,
                   rateLimitDelayMs, maxRequestsPerMinute, config, dataVars, dq,
                   rq, hq>>

----------------------------------------------------------------------------
(* The callers of the throttlers, the network and the clock *)

(* doGenerate / doEmbed called: runs into enforceRateLimit synchronously *)
ProviderCall(t, c, budget) ==
    /\ task[t].op = "idle"
    /\ InFlight < budget
    /\ ProviderEnforceRateLimit(t, [IdleTask EXCEPT !.op = "call", !.call = c])
    /\ UNCHANGED <<server, now, rateLimitDelayMs, maxRequestsPerMinute,
                   ragLastRequestTime, config, dataVars, dq, rq, hq>>

(* getSambaNovaEmbeddings / getSambaNovaResponse called *)
RagCall(t, c, budget) ==
    /\ task[t].op = "idle"
    /\ InFlight < budget
    /\ RagEnforceRateLimit(t, [IdleTask EXCEPT !.op = "call", !.call = c])
    /\ UNCHANGED <<server, now, lastRequestTime, requestCount, lastResetTime,
                   rateLimitDelayMs, maxRequestsPerMinute, config, dataVars, dq,
                   rq, hq>>

(* the awaited fetch settles and the call returns its data or throws *)
CallSettles(t) ==
    /\ task[t].op = "call"
    /\ task[t].pc = "fetch"
    /\ task' = [task EXCEPT ![t] = IdleTask]
    /\ UNCHANGED <<server, now, throttleVars, permits, dataVars, dq, rq, hq>>

Tick(d, horizon) ==
    /\ now + d <= horizon
    /\ now' = now + d
    /\ UNCHANGED <<server, throttleVars, task, permits, dataVars, dq, rq, hq>>

----------------------------------------------------------------------------
(* Documents.  Text is a sequence of characters; an embedding is a vector  *)
(* of integers (of dimension 2 here, with integral norms, so that the      *)
(* square roots and the quotient of cosineSimilarity are exact); a         *)
(* similarity is held in thousandths.                                      *)

DocIds == {"d1", "d2", "d3"}

(* the path uploadFile stored the file under; a document added through
   addDocuments has the empty path (line 390) *)
StoragePath(id) == IF id = "d2" THEN <<>> ELSE <<"documents/", id>>

(* documents whose content is longer than the excerpt of the prompt *)
LongDocIds == {"d5", "d6", "d7", "d8"}

(* "r" up to the length of the excerpt, "Z" from there on *)
LongContent ==
    [i \in 1 .. LongContentLength |-> IF i <= EXCERPT_CHARS THEN "r" ELSE "Z"]

Doc(id) ==
    CASE id = "d1" -> [id |-> "d1", file_name |-> <<"A", "b">>,
                       source |-> <<"A", "b">>, tags |-> <<"x">>,
                       content |-> <<"r", "e", "v">>, embedding |-> <<3, 4>>]
      [] id = "d2" -> [id |-> "d2", file_name |-> <<"b", "C">>,
                       source |-> <<"b", "C">>, tags |-> <<"y">>,
                       content |-> <<"c", "o">>, embedding |-> <<4, 3>>]
      [] id = "d3" -> [id |-> "d3", file_name |-> <<"c">>,
                       source |-> <<"a", "B">>, tags |-> <<"x", "y">>,
                       content |-> <<"r", "e", "v">>, embedding |-> <<3, 4>>]
      [] id = "d4" -> [id |-> "d4", file_name |-> <<"d">>,
                       source |-> <<"d">>, tags |-> <<"z">>,
                       content |-> <<"n">>, embedding |-> <<0, 0>>]
      [] id \in LongDocIds ->
                      [id |-> id, file_name |-> <<"L">>,
                       source |-> <<"L">>, tags |-> <<"w">>,
                       content |-> LongContent, embedding |-> <<3, 4>>]

(* The tables the store can hold, newest first *)
Stores ==
    {<<>>, <<"d1">>, <<"d2">>, <<"d1", "d2">>, <<"d3", "d1">>,
     <<"d2", "d3">>, <<"d1", "d2", "d3">>, <<"d3", "d2", "d1">>}

(* the files of the rows of a table *)
StoredFiles(table) ==
    {StoragePath(table[i]) : i \in {k \in 1 .. Len(table) : StoragePath(table[k]) # <<>>}}

(* loadDocumentsFromSupabase: the cache built from the table *)
LoadedDocuments(table) == table

LoadedEmbeddings(table) ==
    [i \in 1 .. Len(table) |->
        [id |-> table[i], embedding |-> Doc(table[i]).embedding]]

----------------------------------------------------------------------------
(* SupabaseRAGSystem.cosineSimilarity and the ranking of query()           *)

RECURSIVE SumTo(_, _)
SumTo(f, n) == IF n = 0 THEN 0 ELSE f[n] + SumTo(f, n - 1)

Dot(a, b) == SumTo([i \in 1 .. Len(a) |-> a[i] * b[i]], Len(a))

(* Math.sqrt on the squares that occur *)
Sqrt(n) == CHOOSE r \in 0 .. n : r * r = n

Magnitude(a) == Sqrt(Dot(a, a))

cosineSimilarityOneSided(a, b) ==
    IF Magnitude(a) = 0 \/ Magnitude(b) = 0
    THEN 0
    ELSE (1000 * Dot(a, b)) \div (Magnitude(a) * Magnitude(a))

cosineSimilarityZeroIsOne(a, b) ==
    IF Magnitude(a) = 0 \/ Magnitude(b) = 0
    THEN 1000
    ELSE (1000 * Dot(a, b)) \div (Magnitude(a) * Magnitude(b))

(* lines 162-169, in thousandths *)
cosineSimilarity(a, b) ==
    IF Magnitude(a) = 0 \/ Magnitude(b) = 0
    THEN 0
    ELSE (1000 * Dot(a, b)) \div (Magnitude(a) * Magnitude(b))

(* lines 439-443 *)
Similarities(queryEmbedding, embs) ==
    [i \in 1 .. Len(embs) |->
        [id |-> embs[i].id,
         similarity |-> cosineSimilarity(queryEmbedding, embs[i].embedding)]]

(* line 447 *)
PassesThreshold(item, threshold) == item.similarity >= threshold

RECURSIVE Filter(_, _)
Filter(items, threshold) ==
    IF items = <<>> THEN <<>>
    ELSE IF PassesThreshold(Head(items), threshold)
         THEN <<Head(items)>> \o Filter(Tail(items), threshold)
         ELSE Filter(Tail(items), threshold)

RECURSIVE InsertDescBeforeEqual(_, _)
InsertDescBeforeEqual(sorted, item) ==
    IF sorted = <<>> THEN <<item>>
    ELSE IF item.similarity - Head(sorted).similarity >= 0
         THEN <<item>> \o sorted
         ELSE <<Head(sorted)>> \o InsertDescBeforeEqual(Tail(sorted), item)

(* line 448: Array.prototype.sort with (a, b) => b.similarity - a.similarity
   is stable: an item goes after every item that is not smaller *)
RECURSIVE InsertDesc(_, _)
InsertDesc(sorted, item) ==
    IF sorted = <<>> THEN <<item>>
    ELSE IF item.similarity - Head(sorted).similarity > 0
         THEN <<item>> \o sorted
         ELSE <<Head(sorted)>> \o InsertDesc(Tail(sorted), item)

RECURSIVE SortDesc(_)
SortDesc(items) ==
    IF items = <<>> THEN <<>>
    ELSE InsertDesc(SortDesc(SubSeq(items, 1, Len(items) - 1)), items[Len(items)])

(* line 449: slice(0, n) *)
Slice(items, n) == SubSeq(items, 1, IF n < Len(items) THEN n ELSE Len(items))

RankUnsorted(queryEmbedding, embs, threshold, maxDocs) ==
    Slice(Filter(Similarities(queryEmbedding, embs), threshold), maxDocs)

(* lines 439-449 *)
Rank(queryEmbedding, embs, threshold, maxDocs) ==
    Slice(SortDesc(Filter(Similarities(queryEmbedding, embs), threshold)), maxDocs)

----------------------------------------------------------------------------
(* SupabaseRAGSystem.query *)

NoInfo == "I couldn't find relevant information in the uploaded documents to answer your question."
Generated == "data.choices[0].message.content"
Apology == "I apologize, but I encountered an error while processing your query"

IdleRq ==
    [ranked |-> FALSE, queryEmbedding |-> <<>>, similarities |-> <<>>,
     relevantDocs |-> <<>>, failed |-> FALSE,
     outcome |-> "none", response |-> "none", context |-> <<>>,
     confidence |-> 0]

DoneSelectsAgain(tk) == [tk EXCEPT !.phase = "ids", !.pc = "none", !.call = "none"]

Done(tk) == [tk EXCEPT !.phase = "done", !.pc = "none", !.call = "none"]

NoRelevantDocsNever(relevantDocs) == Len(relevantDocs) < 0

(* line 451 *)
NoRelevantDocs(relevantDocs) == Len(relevantDocs) = 0

AvgConfidenceSum(relevantDocs) ==
    SumTo([i \in 1 .. Len(relevantDocs) |-> relevantDocs[i].similarity],
          Len(relevantDocs))

(* line 468 and toFixed(3) of line 473 *)
AvgConfidence(relevantDocs) ==
    LET sum == SumTo([i \in 1 .. Len(relevantDocs) |-> relevantDocs[i].similarity],
                     Len(relevantDocs))
        n == Len(relevantDocs)
    IN  (2 * sum + n) \div (2 * n)

(* line 440 and line 472: the cached document of each match *)
ContextOf(relevantDocs) ==
    [i \in 1 .. Len(relevantDocs) |-> relevantDocs[i].id]

(* line 440 with line 462: find() yields undefined for a match whose
   document is not cached, and reading its content throws *)
MissingDocument(relevantDocs) ==
    \E i \in 1 .. Len(relevantDocs) :
        \A k \in 1 .. Len(documents) : documents[k] # relevantDocs[i].id

(* lines 430-435: query() is called and runs into getSambaNovaEmbeddings *)
RagQueryCalled(t, budget) ==
    /\ task[t].op = "idle" \/ task[t].phase = "done"
    /\ InFlight < budget
    /\ rq' = [rq EXCEPT ![t] = IdleRq]
    /\ RagEnforceRateLimit(t, [IdleTask EXCEPT !.op = "ragQuery",
                                             !.phase = "embed",
                                             !.call = "getSambaNovaEmbeddings"])
    /\ UNCHANGED <<server, now, lastRequestTime, requestCount, lastResetTime,
                   rateLimitDelayMs, maxRequestsPerMinute, config, dataVars, dq, hq>>

(* lines 94-114 and 436-466: the embeddings fetch settles with response r
   carrying the vector q; then the ranking, and either the early return or
   the call of getSambaNovaResponse *)
RagQueryEmbedded(t, r, q) ==
    /\ task[t].op = "ragQuery"
    /\ task[t].phase = "embed"
    /\ task[t].pc = "fetch"
    /\ IF r = "error"
       THEN /\ rq' = [rq EXCEPT ![t].failed = TRUE, ![t].outcome = "thrown"]
            /\ task' = [task EXCEPT ![t] = Done(task[t])]
            /\ UNCHANGED <<ragLastRequestTime, permits>>
       ELSE LET relevantDocs == Rank(q, embeddings, config.similarityThreshold,
                                     config.maxContextDocuments)
            IN  IF NoRelevantDocs(relevantDocs)
                THEN /\ rq' = [rq EXCEPT ![t].ranked = TRUE,
                                         ![t].queryEmbedding = q,
                                         ![t].similarities =
                                             Similarities(q, embeddings),
                                         ![t].relevantDocs = relevantDocs,
                                         ![t].outcome = "returned",
                                         ![t].response = NoInfo,
                                         ![t].context = <<>>,
                                         ![t].confidence = 0]
                     /\ task' = [task EXCEPT ![t] = Done(task[t])]
                     /\ UNCHANGED <<ragLastRequestTime, permits>>
                ELSE IF MissingDocument(relevantDocs)
                THEN /\ rq' = [rq EXCEPT ![t].ranked = TRUE,
                                         ![t].queryEmbedding = q,
                                         ![t].similarities =
                                             Similarities(q, embeddings),
                                         ![t].relevantDocs = relevantDocs,
                                         ![t].outcome = "thrown"]
                     /\ task' = [task EXCEPT ![t] = Done(task[t])]
                     /\ UNCHANGED <<ragLastRequestTime, permits>>
                ELSE /\ rq' = [rq EXCEPT ![t].ranked = TRUE,
                                         ![t].queryEmbedding = q,
                                         ![t].similarities =
                                             Similarities(q, embeddings),
                                         ![t].relevantDocs = relevantDocs]
                     /\ RagEnforceRateLimit(t, [task[t] EXCEPT
                                                   !.phase = "generate",
                                                   !.call = "getSambaNovaResponse"])
    /\ UNCHANGED <<server, now, lastRequestTime, requestCount, lastResetTime,
                   rateLimitDelayMs, maxRequestsPerMinute, config, dataVars, dq, hq>>

(* lines 131-156 and 466-480: the chat fetch settles *)
RagQueryGenerated(t, r) ==
    /\ task[t].op = "ragQuery"
    /\ task[t].phase = "generate"
    /\ task[t].pc = "fetch"
    /\ IF r = "error"
       THEN rq' = [rq EXCEPT ![t].failed = TRUE, ![t].outcome = "thrown"]
       ELSE rq' = [rq EXCEPT ![t].outcome = "returned",
                             ![t].response = Generated,
                             ![t].context = ContextOf(rq[t].relevantDocs),
                             ![t].confidence = AvgConfidence(rq[t].relevantDocs)]
    /\ task' = [task EXCEPT ![t] = Done(task[t])]
    /\ UNCHANGED <<server, now, throttleVars, permits, dataVars, dq, hq>>

----------------------------------------------------------------------------
(* POST /query: the request body *)

Absent == [given |-> FALSE, items |-> <<>>]
Given(items) == [given |-> TRUE, items |-> items]

(* JavaScript truthiness of `list && list.length > 0` *)
Supplied(list) == list.given /\ Len(list.items) > 0

IdChoices == {Absent, Given(<<>>), Given(<<"d1", "d2">>), Given(<<"d9">>)}
NameChoices ==
    {Absent, Given(<<>>), Given(<< <<"b">> >>), Given(<< <<"A", "B">>, <<"z">> >>)}
TagChoices == {Absent, Given(<<>>), Given(<<"x">>), Given(<<"q", "y">>)}
FormatChoices == {Absent, Given(<<"c", "s", "v">>)}
Prompt == <<"Q", "?">>

PromptChoices == {Absent, Given(<<>>), Given(Prompt)}

Bodies ==
    [prompt : PromptChoices, documentIds : IdChoices, documentNames : NameChoices,
     tags : TagChoices, useAllDocuments : BOOLEAN, userResponse : FormatChoices]

----------------------------------------------------------------------------
(* String operations used by the handler *)

Lower(c) ==
    CASE c = "A" -> "a" [] c = "B" -> "b" [] c = "C" -> "c" [] c = "Q" -> "q"
      [] OTHER -> c

toLowerCase(str) == [i \in 1 .. Len(str) |-> Lower(str[i])]

includes(str, part) ==
    \E k \in 0 .. Len(str) - Len(part) :
        SubSeq(str, k + 1, k + Len(part)) = part

Elems(list) == {list[i] : i \in 1 .. Len(list)}

(* Array.prototype.filter: the documents of docs that are in keep, in order *)
RECURSIVE FilterDocs(_, _)
FilterDocs(docs, keep) ==
    IF docs = <<>> THEN <<>>
    ELSE IF Head(docs) \in keep
         THEN <<Head(docs)>> \o FilterDocs(Tail(docs), keep)
         ELSE FilterDocs(Tail(docs), keep)

----------------------------------------------------------------------------
(* POST /query: document selection (lines 902-940) *)

(* line 908 *)
IdMatches(id, documentIds) == id \in Elems(documentIds)

NameMatchesFileName(id, documentNames) ==
    \E name \in Elems(documentNames) :
        includes(toLowerCase(Doc(id).file_name), toLowerCase(name))

(* lines 915-918 *)
NameMatches(id, documentNames) ==
    \E name \in Elems(documentNames) :
        \/ includes(toLowerCase(Doc(id).file_name), toLowerCase(name))
        \/ includes(toLowerCase(Doc(id).source), toLowerCase(name))

(* line 929 *)
TagMatchesEvery(id, tags) ==
    \A tag \in Elems(tags) : tag \in Elems(Doc(id).tags)

TagMatches(id, tags) ==
    \E tag \in Elems(tags) : tag \in Elems(Doc(id).tags)

(* lines 920-922 and 931-933: narrow the selection, or take the matches
   when nothing is selected so far *)
Narrow(selectedDocuments, matched) ==
    IF Len(selectedDocuments) > 0
    THEN FilterDocs(selectedDocuments, Elems(matched))
    ELSE matched

UseAllOnlyOnRequest(body, selectedDocuments) == body.useAllDocuments

UseAllUnlessFiltered(body, selectedDocuments) ==
    /\ Len(selectedDocuments) = 0
    /\ ~body.documentIds.given
    /\ ~body.documentNames.given
    /\ ~body.tags.given

UseAllWhenEmpty(body, selectedDocuments) ==
    body.useAllDocuments \/ Len(selectedDocuments) = 0

(* line 937 *)
UseAll(body, selectedDocuments) ==
    \/ body.useAllDocuments
    \/ /\ Len(selectedDocuments) = 0
       /\ ~body.documentIds.given
       /\ ~body.documentNames.given
       /\ ~body.tags.given

Describe(kind, items) == [kind |-> kind, items |-> items]

IdleHq ==
    [body |-> [prompt |-> Absent, documentIds |-> Absent, documentNames |-> Absent,
               tags |-> Absent, useAllDocuments |-> FALSE, userResponse |-> Absent],
     selectedDocuments |-> <<>>, selectionCriteria |-> <<>>,
     enhancedPrompt |-> <<>>, step |-> 0, failed |-> FALSE,
     outcome |-> "none", code |-> 0, success |-> FALSE,
     response |-> "none", confidence |-> 0, selectedCount |-> 0,
     reads |-> 0]

(* lines 1012-1018: the handler's catch *)
QueryFails(t) ==
    /\ hq' = [hq EXCEPT ![t].outcome = "replied", ![t].code = 500,
                        ![t].success = FALSE, ![t].reads = @ + 1]
    /\ task' = [task EXCEPT ![t] = Done(task[t])]

MIN_PROMPT_LENGTH == 1

ValidPromptAllowsEmpty(prompt) == prompt.given

(* lines 859-862: `required: ['prompt']` and `minLength: 1` *)
ValidPrompt(prompt) == prompt.given /\ Len(prompt.items) >= MIN_PROMPT_LENGTH

(* lines 1140-1159: the error handler answers a request that fails the
   schema; the route handler is not run *)
QueryRejected(t, body) ==
    /\ task[t].op = "idle"
    /\ ~ValidPrompt(body.prompt)
    /\ task' = [task EXCEPT ![t] = [IdleTask EXCEPT !.op = "httpQuery",
                                                    !.phase = "done"]]
    /\ hq' = [hq EXCEPT ![t] = [IdleHq EXCEPT !.body = body,
                                              !.outcome = "replied",
                                              !.code = 400]]
    /\ UNCHANGED <<server, now, throttleVars, permits, dataVars, dq, rq>>

(* lines 856-900: the request passes the schema and enters the handler *)
QueryReceived(t, body) ==
    /\ task[t].op = "idle"
    /\ ValidPrompt(body.prompt)
    /\ task' = [task EXCEPT ![t] = [IdleTask EXCEPT !.op = "httpQuery",
                                                    !.phase = "ids"]]
    /\ hq' = [hq EXCEPT ![t] = [IdleHq EXCEPT !.body = body]]
    /\ UNCHANGED <<server, now, throttleVars, permits, dataVars, dq, rq>>

(* lines 906-910; r is the outcome of getAllDocuments *)
QuerySelectIds(t, r) ==
    /\ task[t].op = "httpQuery"
    /\ task[t].phase = "ids"
    /\ LET documentIds == hq[t].body.documentIds
       IN  IF Supplied(documentIds)
           THEN IF r = "error"
                THEN QueryFails(t)
                ELSE /\ hq' = [hq EXCEPT
                          ![t].selectedDocuments =
                              FilterDocs(store, {id \in Elems(store) :
                                                   IdMatches(id, documentIds.items)}),
                          ![t].selectionCriteria =
                              Append(@, Describe("Document IDs", documentIds.items)),
                          ![t].reads = @ + 1]
                     /\ task' = [task EXCEPT ![t].phase = "names"]
           ELSE /\ r = "ok"
                /\ hq' = hq
                /\ task' = [task EXCEPT ![t].phase = "names"]
    /\ UNCHANGED <<server, now, throttleVars, permits, dataVars, dq, rq>>

(* lines 912-924 *)
QuerySelectNames(t, r) ==
    /\ task[t].op = "httpQuery"
    /\ task[t].phase = "names"
    /\ LET documentNames == hq[t].body.documentNames
       IN  IF Supplied(documentNames)
           THEN IF r = "error"
                THEN QueryFails(t)
                ELSE /\ hq' = [hq EXCEPT
                          ![t].selectedDocuments =
                              Narrow(@, FilterDocs(store, {id \in Elems(store) :
                                            NameMatches(id, documentNames.items)})),
                          ![t].selectionCriteria =
                              Append(@, Describe("Document Names", documentNames.items)),
                          ![t].reads = @ + 1]
                     /\ task' = [task EXCEPT ![t].phase = "tags"]
           ELSE /\ r = "ok"
                /\ hq' = hq
                /\ task' = [task EXCEPT ![t].phase = "tags"]
    /\ UNCHANGED <<server, now, throttleVars, permits, dataVars, dq, rq>>

(* lines 926-935 *)
QuerySelectTags(t, r) ==
    /\ task[t].op = "httpQuery"
    /\ task[t].phase = "tags"
    /\ LET tags == hq[t].body.tags
       IN  IF Supplied(tags)
           THEN IF r = "error"
                THEN QueryFails(t)
                ELSE /\ hq' = [hq EXCEPT
                          ![t].selectedDocuments =
                              Narrow(@, FilterDocs(store, {id \in Elems(store) :
                                            TagMatches(id, tags.items)})),
                          ![t].selectionCriteria =
                              Append(@, Describe("Tags", tags.items)),
                          ![t].reads = @ + 1]
                     /\ task' = [task EXCEPT ![t].phase = "all"]
           ELSE /\ r = "ok"
                /\ hq' = hq
                /\ task' = [task EXCEPT ![t].phase = "all"]
    /\ UNCHANGED <<server, now, throttleVars, permits, dataVars, dq, rq>>

----------------------------------------------------------------------------
(* POST /query: context assembly (lines 947-977).  A prompt is a sequence  *)
(* of pieces: the literal fragments of the template and the characters of  *)
(* the texts substituted into it.                                          *)

ExcerptWhole(content) == content

(* line 952: substring(0, 1000) *)
Excerpt(content) ==
    SubSeq(content, 1, IF Len(content) < EXCERPT_CHARS THEN Len(content)
                       ELSE EXCERPT_CHARS)

(* line 962: `${doc.name}:\n${doc.content}` joined by two newlines *)
RECURSIVE DocumentData(_)
DocumentData(docs) ==
    IF docs = <<>> THEN <<>>
    ELSE Doc(Head(docs)).file_name \o <<":", "\n">>
            \o Excerpt(Doc(Head(docs)).content)
            \o (IF Len(docs) > 1 THEN <<"\n", "\n">> ELSE <<>>)
            \o DocumentData(Tail(docs))

(* a non-empty string is truthy *)
Truthy(text) == text.given /\ Len(text.items) > 0

EnhancedPromptStamped(selectedDocuments, prompt, userResponse) ==
    <<now, ": ">> \o prompt

EnhancedPromptAlwaysData(selectedDocuments, prompt, userResponse) ==
    <<"Document Data:", "\n">> \o DocumentData(selectedDocuments)
        \o <<"\n", "\n", "Question: ">> \o prompt

(* lines 958-977 *)
EnhancedPrompt(selectedDocuments, prompt, userResponse) ==
    IF Len(selectedDocuments) > 0
    THEN <<"Document Data:", "\n">> \o DocumentData(selectedDocuments)
            \o <<"\n", "\n", "Question: ">> \o prompt \o <<"\n", "\n">>
            \o (IF Truthy(userResponse)
                THEN <<"Output Format: ">> \o userResponse.items \o <<"\n", "\n">>
                ELSE <<>>)
            \o <<"Answer directly using the data above.">>
            \o (IF Truthy(userResponse)
                THEN <<" Use the exact format requested.">> ELSE <<>>)
            \o <<" Do not ask follow-up questions or provide explanations beyond answering the question.">>
    ELSE IF Truthy(userResponse)
         THEN <<"Question: ">> \o prompt \o <<"\n", "\n", "Output Format: ">>
                 \o userResponse.items
                 \o <<"\n", "\n", "Provide a direct answer in the requested format.">>
         ELSE prompt

(* lines 937-977: the fallback to all documents, then the prompt *)
QuerySelectAll(t, r) ==
    /\ task[t].op = "httpQuery"
    /\ task[t].phase = "all"
    /\ IF UseAll(hq[t].body, hq[t].selectedDocuments)
       THEN IF r = "error"
            THEN QueryFails(t)
            ELSE /\ hq' = [hq EXCEPT
                      ![t].selectedDocuments = store,
                      ![t].selectionCriteria =
                          Append(@, Describe("All available documents", <<>>)),
                      ![t].enhancedPrompt =
                          EnhancedPrompt(store, hq[t].body.prompt.items,
                                         hq[t].body.userResponse),
                      ![t].reads = @ + 1]
                 /\ task' = [task EXCEPT ![t].phase = "agent"]
       ELSE /\ r = "ok"
            /\ hq' = [hq EXCEPT
                      ![t].enhancedPrompt =
                          EnhancedPrompt(hq[t].selectedDocuments, hq[t].body.prompt.items,
                                         hq[t].body.userResponse)]
            /\ task' = [task EXCEPT ![t].phase = "agent"]
    /\ UNCHANGED <<server, now, throttleVars, permits, dataVars, dq, rq>>

----------------------------------------------------------------------------
(* MastraRAGSystem.query and the agent it runs (lines 143-222, 294-332)    *)

AGENT_MAX_STEPS == 3
DEFAULT_CONFIDENCE == 800

AgentTools == {"vectorSearch", "generateRecommendations"}

(* lines 153 and 204: the provider call a tool makes *)
ToolCall(tool) == IF tool = "vectorSearch" THEN "doEmbed" ELSE "doGenerate"

MastraRethrows(hqt, text, confidence) ==
    [hqt EXCEPT !.outcome = "replied", !.code = 500, !.success = FALSE]

(* lines 310-331 and 982-1010: query() returns and the handler replies *)
MastraQueryReturns(hqt, text, confidence) ==
    [hqt EXCEPT !.outcome = "replied", !.code = 200, !.success = TRUE,
                !.response = text, !.confidence = confidence,
                !.selectedCount = Len(hqt.selectedDocuments)]

(* lines 980 and 301-308: agent.generate asks the model *)
AgentCallsModel(t) ==
    /\ task[t].op = "httpQuery"
    /\ task[t].phase = "agent"
    /\ hq' = [hq EXCEPT ![t].step = @ + 1]
    /\ ProviderEnforceRateLimit(t, [task[t] EXCEPT !.phase = "llm",
                                                   !.call = "doGenerate"])
    /\ UNCHANGED <<server, now, rateLimitDelayMs, maxRequestsPerMinute,
                   ragLastRequestTime, config, dataVars, dq, rq>>

(* lines 71-95: the chat fetch settles with r; the model's answer is final
   or asks for a tool while steps remain.  A failed call rejects
   agent.generate, which query() catches (lines 320-331). *)
AgentModelResponds(t, r, next) ==
    /\ task[t].op = "httpQuery"
    /\ task[t].phase = "llm"
    /\ task[t].pc = "fetch"
    /\ IF r = "error"
       THEN /\ next = "finish"
            /\ hq' = [hq EXCEPT ![t] =
                        MastraQueryReturns([@ EXCEPT !.failed = TRUE], Apology, 0)]
            /\ task' = [task EXCEPT ![t] = Done(task[t])]
            /\ UNCHANGED <<providerVars, permits>>
       ELSE IF next = "finish" \/ hq[t].step >= AGENT_MAX_STEPS
       THEN /\ next = "finish"
            /\ hq' = [hq EXCEPT ![t] =
                        MastraQueryReturns(@, Generated, DEFAULT_CONFIDENCE)]
            /\ task' = [task EXCEPT ![t] = Done(task[t])]
            /\ UNCHANGED <<providerVars, permits>>
       ELSE /\ hq' = hq
            /\ ProviderEnforceRateLimit(t, [task[t] EXCEPT !.phase = "tool",
                                                           !.call = ToolCall(next)])
    /\ UNCHANGED <<server, now, rateLimitDelayMs, maxRequestsPerMinute,
                   ragLastRequestTime, config, dataVars, dq, rq>>

(* lines 150-179 and 191-221: the tool's fetch settles; the tool catches a
   failure and returns empty results, and the agent goes on *)
AgentToolResponds(t, r) ==
    /\ task[t].op = "httpQuery"
    /\ task[t].phase = "tool"
    /\ task[t].pc = "fetch"
    /\ hq' = [hq EXCEPT ![t].failed = @ \/ (r = "error")]
    /\ task' = [task EXCEPT ![t].phase = "agent", ![t].pc = "none",
                            ![t].call = "none"]
    /\ UNCHANGED <<server, now, throttleVars, permits, dataVars, dq, rq>>

----------------------------------------------------------------------------
(* Document operations: deleteDocument and DELETE /documents/:id           *)
(* (supabase-rag-system.ts lines 507-569, part_001 lines 1075-1109)        *)

Snapshot ==
    [store |-> store, documents |-> documents, embeddings |-> embeddings,
     bucket |-> bucket]

NoSnapshot ==
    [store |-> <<>>, documents |-> <<>>, embeddings |-> <<>>, bucket |-> {}]

IdleDq ==
    [op |-> "none", id |-> "none", found |-> "none", mutation |-> "none",
     outcome |-> "none", code |-> 0, success |-> FALSE, result |-> "none", ops |-> 0,
     done |-> 0, uploaded |-> "none", before |-> NoSnapshot]

(* ids a request can name: the rows' ids, a UUID no row has, and the id of
   the example in API.md line 265, which is not a UUID *)
AbsentUuid == "d9"
NotUuid == "abc123-def456-ghi789"
RequestIds == DocIds \cup {AbsentUuid, NotUuid}

(* supabase-schema.sql line 6: the id column is of type UUID *)
IsUuid(id) == id \in DocIds \cup {AbsentUuid}

(* lines 509-513: select('*').eq('id', id).single() on the table: the row,
   PGRST116 when no row matches, and the type error of the column when the
   id is not a UUID *)
Lookup(id, table) ==
    IF ~IsUuid(id) THEN "22P02"
    ELSE IF id \in Elems(table) THEN "row" ELSE "PGRST116"

FilterEmbeddingsKeepsAll(embs, id) == embs

RECURSIVE FilterEmbeddings(_, _)
FilterEmbeddings(embs, id) ==
    IF embs = <<>> THEN <<>>
    ELSE IF Head(embs).id # id
         THEN <<Head(embs)>> \o FilterEmbeddings(Tail(embs), id)
         ELSE FilterEmbeddings(Tail(embs), id)

(* the route's reply; the task is free for the next request *)
DocReplies(t, code, result, found) ==
    /\ dq' = [dq EXCEPT ![t].outcome = "replied", ![t].code = code,
                        ![t].success = (code = 200), ![t].result = result,
                        ![t].found = found,
                        ![t].done = IF code = 200 THEN @ + 1 ELSE @]
    /\ task' = [task EXCEPT ![t] = IdleTask]

StoreFailedNever(answer) == FALSE

(* lines 349, 400, 557 and 584: `if (error)` on the answer of the table *)
StoreFailed(answer) == answer # "ok"

(* part_001 lines 1085-1086 and lines 533-536: the lookup is sent *)
DeleteCalled(t, id, budget) ==
    /\ task[t].op = "idle"
    /\ dq[t].ops < budget
    /\ task' = [task EXCEPT ![t] = [IdleTask EXCEPT !.op = "delete",
                                                    !.phase = "lookup"]]
    /\ dq' = [dq EXCEPT ![t] = [IdleDq EXCEPT !.op = "delete", !.id = id,
                                             !.ops = dq[t].ops + 1,
                                             !.done = dq[t].done,
                                             !.uploaded = dq[t].uploaded,
                                             !.before = Snapshot]]
    /\ UNCHANGED <<server, now, throttleVars, permits, dataVars, rq, hq>>

(* lines 515-521 and 536-548: the lookup settles; r = "error" is a store
   that does not answer *)
DeleteLookedUp(t, r) ==
    /\ task[t].op = "delete"
    /\ task[t].phase = "lookup"
    /\ LET found == IF r = "error" THEN "unavailable" ELSE Lookup(dq[t].id, store)
       IN  IF found = "row"
           THEN /\ task' = [task EXCEPT ![t].phase =
                              IF StoragePath(dq[t].id) # <<>> THEN "remove"
                              ELSE "delete"]
                /\ dq' = [dq EXCEPT ![t].found = found]
           ELSE IF found = "PGRST116"
           THEN DocReplies(t, 404, "false", found)
           ELSE DocReplies(t, 500, "thrown", found)
    /\ UNCHANGED <<server, now, throttleVars, permits, dataVars, rq, hq>>

(* lines 541-548: the storage answers; a failure is only logged *)
DeleteRemoved(t, r) ==
    /\ task[t].op = "delete"
    /\ task[t].phase = "remove"
    /\ bucket' = IF r = "ok" THEN bucket \ {StoragePath(dq[t].id)} ELSE bucket
    /\ task' = [task EXCEPT ![t].phase = "delete"]
    /\ UNCHANGED <<server, now, throttleVars, permits, store, documents, embeddings,
                   rq, hq, dq>>

(* lines 557-564: the answer to the delete arrives; then the cache *)
DeleteDeleted(t) ==
    /\ task[t].op = "delete"
    /\ task[t].phase = "answered"
    /\ IF StoreFailed(dq[t].mutation)
       THEN /\ DocReplies(t, 500, "thrown", dq[t].found)
            /\ UNCHANGED <<documents, embeddings>>
       ELSE /\ documents' = FilterDocs(documents, Elems(documents) \ {dq[t].id})
            /\ embeddings' = FilterEmbeddings(embeddings, dq[t].id)
            /\ DocReplies(t, 200, "true", dq[t].found)
    /\ UNCHANGED <<server, now, throttleVars, permits, store, bucket, rq, hq>>

----------------------------------------------------------------------------
(* Document operations: uploadFile and POST /upload                        *)
(* (supabase-rag-system.ts lines 242-369, part_001 lines 542-657)          *)

InsertRowLost(table, id) == table

(* lines 335-351 with the order of getAllDocuments (line 490): the new row
   is the newest one *)
InsertRow(table, id) == <<id>> \o table

(* part_001 line 620 and lines 244-254: the file whose row will be Doc(id)
   is sent to the storage bucket *)
UploadCalled(t, id, budget) ==
    /\ task[t].op = "idle"
    /\ dq[t].ops < budget
    /\ id \notin Elems(store)
    /\ StoragePath(id) # <<>>
    /\ task' = [task EXCEPT ![t] = [IdleTask EXCEPT !.op = "upload",
                                                    !.phase = "store"]]
    /\ dq' = [dq EXCEPT ![t] = [IdleDq EXCEPT !.op = "upload", !.id = id,
                                             !.ops = dq[t].ops + 1,
                                             !.done = dq[t].done,
                                             !.uploaded = dq[t].uploaded,
                                             !.before = Snapshot]]
    /\ UNCHANGED <<server, now, throttleVars, permits, dataVars, rq, hq>>

(* lines 256-332: the storage answers; then the content is extracted and
   getSambaNovaEmbeddings is called *)
UploadStored(t, r) ==
    /\ task[t].op = "upload"
    /\ task[t].phase = "store"
    /\ IF r = "error"
       THEN /\ DocReplies(t, 500, "thrown", dq[t].found)
            /\ UNCHANGED <<bucket, ragLastRequestTime, permits>>
       ELSE /\ bucket' = bucket \cup {StoragePath(dq[t].id)}
            /\ dq' = dq
            /\ RagEnforceRateLimit(t, [task[t] EXCEPT
                                          !.phase = "embed",
                                          !.call = "getSambaNovaEmbeddings"])
    /\ UNCHANGED <<server, now, lastRequestTime, requestCount, lastResetTime,
                   rateLimitDelayMs, maxRequestsPerMinute, config, store,
                   documents, embeddings, rq, hq>>

(* lines 94-114 and 332-351: the embeddings fetch settles; then the insert *)
UploadEmbedded(t, r) ==
    /\ task[t].op = "upload"
    /\ task[t].phase = "embed"
    /\ task[t].pc = "fetch"
    /\ IF r = "error"
       THEN DocReplies(t, 500, "thrown", dq[t].found)
       ELSE /\ task' = [task EXCEPT ![t].phase = "insert", ![t].pc = "none",
                                    ![t].call = "none"]
            /\ dq' = dq
    /\ UNCHANGED <<server, now, throttleVars, permits, dataVars, rq, hq>>

(* lines 349-369 and part_001 lines 622-648: the answer to the insert
   arrives; then the cache is extended *)
UploadInserted(t) ==
    /\ task[t].op = "upload"
    /\ task[t].phase = "answered"
    /\ IF StoreFailed(dq[t].mutation)
       THEN /\ DocReplies(t, 500, "thrown", dq[t].found)
            /\ UNCHANGED <<documents, embeddings>>
       ELSE /\ documents' = Append(documents, dq[t].id)
            /\ embeddings' = Append(embeddings,
                                    [id |-> dq[t].id,
                                     embedding |-> Doc(dq[t].id).embedding])
            /\ dq' = [dq EXCEPT ![t].outcome = "replied", ![t].code = 200,
                                ![t].success = TRUE, ![t].result = "document",
                                ![t].uploaded = dq[t].id,
                                ![t].done = @ + 1]
            /\ task' = [task EXCEPT ![t] = IdleTask]
    /\ UNCHANGED <<server, now, throttleVars, permits, store, bucket, rq, hq>>

----------------------------------------------------------------------------
(* Document operations: addDocuments and POST /documents, clearDocuments   *)
(* and DELETE /documents (supabase-rag-system.ts lines 376-420 and         *)
(* 577-598, part_001 lines 809-853 and 1112-1136)                          *)

(* part_001 lines 818-834 and lines 376-378: a request with one document,
   whose row will be Doc(id); getSambaNovaEmbeddings is called *)
AddCalled(t, id, budget) ==
    /\ task[t].op = "idle"
    /\ dq[t].ops < budget
    /\ id \notin Elems(store)
    /\ StoragePath(id) = <<>>
    /\ dq' = [dq EXCEPT ![t] = [IdleDq EXCEPT !.op = "add", !.id = id,
                                             !.ops = dq[t].ops + 1,
                                             !.done = dq[t].done,
                                             !.uploaded = dq[t].uploaded,
                                             !.before = Snapshot]]
    /\ RagEnforceRateLimit(t, [IdleTask EXCEPT !.op = "add", !.phase = "embed",
                                              !.call = "getSambaNovaEmbeddings"])
    /\ UNCHANGED <<server, now, lastRequestTime, requestCount, lastResetTime,
                   rateLimitDelayMs, maxRequestsPerMinute, config, dataVars, rq, hq>>

(* lines 94-114 and 380-398: the embeddings fetch settles; then the insert *)
AddEmbedded(t, r) ==
    /\ task[t].op = "add"
    /\ task[t].phase = "embed"
    /\ task[t].pc = "fetch"
    /\ IF r = "error"
       THEN DocReplies(t, 500, "thrown", dq[t].found)
       ELSE /\ task' = [task EXCEPT ![t].phase = "insert", ![t].pc = "none",
                                    ![t].call = "none"]
            /\ dq' = dq
    /\ UNCHANGED <<server, now, throttleVars, permits, dataVars, rq, hq>>

(* lines 400-420 and part_001 lines 836-852: the answer to the insert
   arrives; then the cache is extended *)
AddInserted(t) ==
    /\ task[t].op = "add"
    /\ task[t].phase = "answered"
    /\ IF StoreFailed(dq[t].mutation)
       THEN /\ DocReplies(t, 500, "thrown", dq[t].found)
            /\ UNCHANGED <<documents, embeddings>>
       ELSE /\ documents' = Append(documents, dq[t].id)
            /\ embeddings' = Append(embeddings,
                                    [id |-> dq[t].id,
                                     embedding |-> Doc(dq[t].id).embedding])
            /\ DocReplies(t, 200, "added", dq[t].found)
    /\ UNCHANGED <<server, now, throttleVars, permits, store, bucket, rq, hq>>

(* part_001 lines 1112-1122 and lines 577-582: the delete is sent *)
ClearCalled(t, budget) ==
    /\ task[t].op = "idle"
    /\ dq[t].ops < budget
    /\ task' = [task EXCEPT ![t] = [IdleTask EXCEPT !.op = "clear",
                                                    !.phase = "delete"]]
    /\ dq' = [dq EXCEPT ![t] = [IdleDq EXCEPT !.op = "clear",
                                             !.ops = dq[t].ops + 1,
                                             !.done = dq[t].done,
                                             !.uploaded = dq[t].uploaded,
                                             !.before = Snapshot]]
    /\ UNCHANGED <<server, now, throttleVars, permits, dataVars, rq, hq>>

(* line 582, .neq('id', ''): the value the id column is compared with *)
ClearFilterValue == ""

(* the answer of the table to delete().neq('id', ''): the comparison of the
   UUID column with a value that is not a UUID is the column's type error *)
ClearAnswer(r) ==
    IF r = "error" THEN "error"
    ELSE IF ~IsUuid(ClearFilterValue) THEN "22P02" ELSE "ok"

(* lines 331-347, 395-398, 552-555 and 579-582: the table receives the
   insert or the delete of the operation of task t and applies it, or
   fails; its answer is on the way back to the operation *)
TableApplies(t, r) ==
    /\ task[t].op \in {"upload", "add", "delete", "clear"}
    /\ task[t].phase \in {"insert", "delete"}
    /\ LET answer == IF task[t].op = "clear" THEN ClearAnswer(r) ELSE r
       IN  /\ store' =
                 IF answer # "ok" THEN store
                 ELSE IF task[t].op \in {"upload", "add"}
                 THEN InsertRow(store, dq[t].id)
                 ELSE IF task[t].op = "delete"
                 THEN FilterDocs(store, Elems(store) \ {dq[t].id})
                 ELSE <<>>
           /\ dq' = [dq EXCEPT ![t].mutation = answer]
    /\ task' = [task EXCEPT ![t].phase = "answered"]
    /\ UNCHANGED <<server, now, throttleVars, permits, documents, embeddings,
                   bucket, rq, hq>>

(* lines 584-597 and part_001 lines 1124-1135: the answer to the delete
   arrives; then the cache is emptied *)
ClearDeleted(t) ==
    /\ task[t].op = "clear"
    /\ task[t].phase = "answered"
    /\ IF StoreFailed(dq[t].mutation)
       THEN /\ DocReplies(t, 500, "thrown", dq[t].found)
            /\ UNCHANGED <<documents, embeddings>>
       ELSE /\ documents' = <<>>
            /\ embeddings' = <<>>
            /\ DocReplies(t, 200, "cleared", dq[t].found)
    /\ UNCHANGED <<server, now, throttleVars, permits, store, bucket, rq, hq>>

----------------------------------------------------------------------------
----------------------------------------------------------------------------
(* Startup: validateEnvironment, initializeRAGSystem, startServer          *)

RequiredEnvVars ==
    {"SAMBANOVA_API_KEY", "SUPABASE_DATABASE_URL", "SUPABASE_SERVICE_ROLE_KEY"}

Credential == <<"k", "e", "y">>

(* constants.ts lines 68-70: the values the getters of CONFIG.ENV return *)
ShippedEnv == [k \in RequiredEnvVars |-> Given(Credential)]

(* the values validateEnvironment tells apart: undefined, '', white space
   only, and a value *)
EnvValues == {Absent, Given(<<>>), Given(<<" ", " ">>), Given(Credential)}

Envs == [RequiredEnvVars -> EnvValues]

RECURSIVE TrimStart(_)
TrimStart(s) ==
    IF s # <<>> /\ Head(s) = " " THEN TrimStart(Tail(s)) ELSE s

RECURSIVE TrimEnd(_)
TrimEnd(s) ==
    IF s # <<>> /\ s[Len(s)] = " " THEN TrimEnd(SubSeq(s, 1, Len(s) - 1))
    ELSE s

(* String.prototype.trim *)
Trim(s) == TrimEnd(TrimStart(s))

(* line 113: !value || value.trim() === '' *)
IsMissing(value) ==
    \/ ~value.given
    \/ value.items = <<>>
    \/ Trim(value.items) = <<>>

validateEnvironmentAlwaysValid(env) == [isValid |-> TRUE, missingVars |-> {}]

(* lines 105-120 *)
validateEnvironment(env) ==
    LET missingVars == {k \in RequiredEnvVars : IsMissing(env[k])}
    IN  [isValid |-> missingVars = {}, missingVars |-> missingVars]

(* the process when it is started: part_001 lines 420-421, both null *)
Started(env) ==
    [env |-> env, pc |-> "start", ragSystem |-> "null",
     mastraRagSystem |-> "null", listening |-> FALSE, exitCode |-> 0]

(* the process the other specifications start from: startServer returned *)
Serving ==
    [env |-> ShippedEnv, pc |-> "listening", ragSystem |-> "initialized",
     mastraRagSystem |-> "initialized", listening |-> TRUE, exitCode |-> 0]

(* lines 1230-1233: the catch of startServer *)
ExitsWith(code) ==
    server' = [server EXCEPT !.pc = "exited", !.listening = FALSE,
                             !.exitCode = code]

(* lines 1191-1197 and 423-438: startServer calls initializeRAGSystem,
   which validates, constructs ragSystem and awaits ragSystem.initialize() *)
StartServerCalled ==
    /\ server.pc = "start"
    /\ IF validateEnvironment(server.env).isValid
       THEN server' = [server EXCEPT !.pc = "loadDocuments",
                                     !.ragSystem = "constructed"]
       ELSE ExitsWith(1)
    /\ UNCHANGED <<now, throttleVars, task, permits, dataVars, dq, rq, hq>>

(* supabase-rag-system.ts lines 172-230: the select of
   loadDocumentsFromSupabase answers; an error is logged and the cache is
   left empty. Then lines 439-449: mastraRagSystem is constructed and its
   initialize() awaited. *)
RagSystemInitialized ==
    /\ server.pc = "loadDocuments"
    /\ \E answer \in {"rows", "error"} :
          IF answer = "rows"
          THEN /\ documents' = LoadedDocuments(store)
               /\ embeddings' = LoadedEmbeddings(store)
          ELSE UNCHANGED <<documents, embeddings>>
    /\ server' = [server EXCEPT !.pc = "testConnection",
                                !.ragSystem = "initialized",
                                !.mastraRagSystem = "constructed"]
    /\ UNCHANGED <<now, throttleVars, task, permits, store, bucket, dq, rq, hq>>

(* part_001 lines 276-292: the connection test answers; an error other
   than the missing relation is rethrown. Then lines 1199-1207: buildApp
   and fastify.listen. *)
MastraInitialized ==
    /\ server.pc = "testConnection"
    /\ \E answer \in {"count", "relation does not exist", "error"} :
          IF answer = "error"
          THEN ExitsWith(1)
          ELSE server' = [server EXCEPT !.pc = "listen",
                                        !.mastraRagSystem = "initialized"]
    /\ UNCHANGED <<now, throttleVars, task, permits, dataVars, dq, rq, hq>>

(* lines 1204-1228: listen resolves and startServer returns the instance,
   or it rejects *)
Listened ==
    /\ server.pc = "listen"
    /\ \E answer \in {"listening", "error"} :
          IF answer = "error"
          THEN ExitsWith(1)
          ELSE server' = [server EXCEPT !.pc = "listening",
                                        !.listening = TRUE]
    /\ UNCHANGED <<now, throttleVars, task, permits, dataVars, dq, rq, hq>>

(* lines 1238-1252: SIGINT or SIGTERM after startServer returned *)
gracefulShutdown ==
    /\ server.pc = "listening"
    /\ ExitsWith(0)
    /\ UNCHANGED <<now, throttleVars, task, permits, dataVars, dq, rq, hq>>

(* The state after construction (lines 23-27 and 57 of the two classes),   *)
(* at clock value t0 and with the delay the instances are configured with  *)

Fresh(t0, delay) ==
    /\ now = t0
    /\ lastRequestTime = 0
    /\ requestCount = 0
    /\ lastResetTime = t0
    /\ rateLimitDelayMs = delay
    /\ maxRequestsPerMinute = MAX_REQUESTS_PER_MINUTE
    /\ ragLastRequestTime = 0
    /\ task = [t \in Tasks |-> IdleTask]
    /\ permits = <<>>

(* The provider after four paced doGenerate calls, the last one just       *)
(* recorded: the state SeqWarmReached shows SpecSeq to reach.              *)
WarmPermit(k) ==
    [inst |-> "provider", time |-> StartTime + (k - 1) * RATE_LIMIT_DELAY_MS,
     window |-> StartTime]

WarmCalls == MAX_REQUESTS_PER_MINUTE - 1

Warm ==
    /\ now = WarmPermit(WarmCalls).time
    /\ lastRequestTime = WarmPermit(WarmCalls).time
    /\ requestCount = WarmCalls
    /\ lastResetTime = StartTime
    /\ rateLimitDelayMs = RATE_LIMIT_DELAY_MS
    /\ maxRequestsPerMinute = MAX_REQUESTS_PER_MINUTE
    /\ ragLastRequestTime = 0
    /\ task = [t \in Tasks |-> IdleTask]
    /\ permits = [k \in 1 .. WarmCalls |-> WarmPermit(k)]

(* getRagConfig (constants.ts lines 131-136), or the values a caller of    *)
(* the constructor passes                                                  *)
RagConfig(delay, threshold, maxDocs) ==
    [rateLimitDelayMs |-> delay, similarityThreshold |-> threshold,
     maxContextDocuments |-> maxDocs]

ShippedConfig ==
    RagConfig(RATE_LIMIT_DELAY_MS, SIMILARITY_THRESHOLD, MAX_CONTEXT_DOCUMENTS)

(* initialize(): the cache is loaded from the table *)
Loaded(table) ==
    /\ store = table
    /\ documents = LoadedDocuments(table)
    /\ embeddings = LoadedEmbeddings(table)
    /\ rq = [t \in Tasks |-> IdleRq]
    /\ hq = [t \in Tasks |-> IdleHq]
    /\ bucket = StoredFiles(table)
    /\ dq = [t \in Tasks |-> IdleDq]
    /\ server = Serving

----------------------------------------------------------------------------
(* Spec: the two throttlers under concurrent callers, as shipped; the     *)
(* service is either newly constructed or has served four paced calls.     *)

LateStart == MaxTime - 2 * RATE_LIMIT_DELAY_MS

Init ==
    /\ Fresh(LateStart, RATE_LIMIT_DELAY_MS) \/ Warm
    /\ config = ShippedConfig
    /\ Loaded(<<>>)

ProviderCallStep ==
    \E t \in Tasks, c \in ProviderCalls : ProviderCall(t, c, WarmCalls + MaxCalls)
RagCallStep ==
    \E t \in Tasks, c \in RagCalls : RagCall(t, c, WarmCalls + MaxCalls)
ProviderCapWakeStep == \E t \in Tasks : ProviderCapWake(t)
ProviderDelayWakeStep == \E t \in Tasks : ProviderDelayWake(t)
RagDelayWakeStep == \E t \in Tasks : RagDelayWake(t)
CallSettlesStep == \E t \in Tasks : CallSettles(t)
TickStep == \E d \in TickSet : Tick(d, MaxTime)

Next ==
    \/ ProviderCallStep
    \/ RagCallStep
    \/ ProviderCapWakeStep
    \/ ProviderDelayWakeStep
    \/ RagDelayWakeStep
    \/ CallSettlesStep
    \/ TickStep

Spec == Init /\ [][Next]_vars

----------------------------------------------------------------------------
(* SpecSeq: one caller issuing provider calls one after another, with the  *)
(* shipped delay or with no minimum delay                                  *)

SeqInit ==
    /\ \E delay \in {0, RATE_LIMIT_DELAY_MS} :
          /\ Fresh(StartTime, delay)
          /\ config = RagConfig(delay, SIMILARITY_THRESHOLD, MAX_CONTEXT_DOCUMENTS)
    /\ Loaded(<<>>)

SeqCallStep == \E c \in ProviderCalls : ProviderCall(SeqTask, c, SeqMaxCalls)
SeqCapWakeStep == ProviderCapWake(SeqTask)
SeqDelayWakeStep == ProviderDelayWake(SeqTask)
SeqSettlesStep == CallSettles(SeqTask)
SeqTickStep == \E d \in TickSet : Tick(d, SeqMaxTime)

SeqNext ==
    \/ SeqCallStep
    \/ SeqCapWakeStep
    \/ SeqDelayWakeStep
    \/ SeqSettlesStep
    \/ SeqTickStep

SpecSeq == SeqInit /\ [][SeqNext]_vars

SeqWarmReached == ~Warm

----------------------------------------------------------------------------
(* SpecRank: SupabaseRAGSystem.query over every table, threshold and cap   *)

Thresholds == {0, SIMILARITY_THRESHOLD, 1000}
MaxDocsChoices == {0, 1, 2, MAX_CONTEXT_DOCUMENTS}
QueryEmbeddings == {<<3, 4>>, <<10, 0>>, <<0, 0>>, <<-4, -3>>}

(* the tables of SpecRank: those of Stores and two with a document whose
   embedding is the zero vector *)
RankStores == Stores \cup {<<"d4">>, <<"d4", "d1">>}

RankInit ==
    /\ Fresh(StartTime, RATE_LIMIT_DELAY_MS)
    /\ \E threshold \in Thresholds, maxDocs \in MaxDocsChoices :
          config = RagConfig(RATE_LIMIT_DELAY_MS, threshold, maxDocs)
    /\ \E table \in RankStores : Loaded(table)

RankCalledStep == RagQueryCalled(SeqTask, RankMaxCalls)
RankEmbeddedStep ==
    \E r \in {"ok", "error"}, q \in QueryEmbeddings : RagQueryEmbedded(SeqTask, r, q)
RankGeneratedStep == \E r \in {"ok", "error"} : RagQueryGenerated(SeqTask, r)
RankDelayWakeStep == RagDelayWake(SeqTask)
RankTickStep == \E d \in TickSet : Tick(d, RankMaxTime)

RankNext ==
    \/ RankCalledStep
    \/ RankEmbeddedStep
    \/ RankGeneratedStep
    \/ RankDelayWakeStep
    \/ RankTickStep

SpecRank == RankInit /\ [][RankNext]_vars

----------------------------------------------------------------------------
(* SpecQuery: one POST /query request against every table, on a service    *)
(* that is newly constructed or has served four paced calls                *)

QueryInit ==
    /\ Fresh(StartTime, RATE_LIMIT_DELAY_MS) \/ Warm
    /\ config = ShippedConfig
    /\ \E table \in Stores : Loaded(table)

QueryReceivedStep ==
    /\ task[SeqTask].op = "idle"
    /\ \E body \in Bodies : QueryReceived(SeqTask, body)
QueryRejectedStep ==
    /\ task[SeqTask].op = "idle"
    /\ \E body \in Bodies : QueryRejected(SeqTask, body)
QuerySelectIdsStep == \E r \in {"ok", "error"} : QuerySelectIds(SeqTask, r)
QuerySelectNamesStep == \E r \in {"ok", "error"} : QuerySelectNames(SeqTask, r)
QuerySelectTagsStep == \E r \in {"ok", "error"} : QuerySelectTags(SeqTask, r)
QuerySelectAllStep == \E r \in {"ok", "error"} : QuerySelectAll(SeqTask, r)
AgentCallsModelStep == AgentCallsModel(SeqTask)
AgentModelRespondsStep ==
    \E r \in {"ok", "error"}, next \in AgentTools \cup {"finish"} :
        AgentModelResponds(SeqTask, r, next)
AgentToolRespondsStep == \E r \in {"ok", "error"} : AgentToolResponds(SeqTask, r)
QueryCapWakeStep == ProviderCapWake(SeqTask)
QueryDelayWakeStep == ProviderDelayWake(SeqTask)
(* the clock is advanced while the request sleeps in the throttler, whose
   timer fires when due; the other awaits of the request are taken at the
   clock value they started at *)
QueryTickStep ==
    /\ task[SeqTask].pc \in {"capWait", "delayWait"}
    /\ now < task[SeqTask].wakeAt
    /\ Tick(RATE_LIMIT_DELAY_MS, QueryMaxTime)

QueryNext ==
    \/ QueryReceivedStep
    \/ QueryRejectedStep
    \/ QuerySelectIdsStep
    \/ QuerySelectNamesStep
    \/ QuerySelectTagsStep
    \/ QuerySelectAllStep
    \/ AgentCallsModelStep
    \/ AgentModelRespondsStep
    \/ AgentToolRespondsStep
    \/ QueryCapWakeStep
    \/ QueryDelayWakeStep
    \/ QueryTickStep

SpecQuery == QueryInit /\ [][QueryNext]_vars

----------------------------------------------------------------------------
(* SpecDocs: on a newly constructed service, uploads and deletes one after *)
(* another and then one POST /query that selects by tags                   *)

DocsStores == {<<>>, <<"d2">>, <<"d3", "d1">>}

DocsBodies ==
    {body \in Bodies : /\ ValidPrompt(body.prompt)
                       /\ body.documentIds = Absent
                       /\ body.documentNames = Absent
                       /\ ~body.useAllDocuments
                       /\ body.userResponse = Absent}

DocsInit ==
    /\ Fresh(StartTime, RATE_LIMIT_DELAY_MS)
    /\ config = ShippedConfig
    /\ \E table \in DocsStores : Loaded(table)

UploadCalledStep == \E id \in DocIds : UploadCalled(SeqTask, id, DocsMaxOps)
UploadStoredStep == \E r \in {"ok", "error"} : UploadStored(SeqTask, r)
UploadEmbeddedStep == \E r \in {"ok", "error"} : UploadEmbedded(SeqTask, r)
TableAppliesStep == \E r \in {"ok", "error"} : TableApplies(SeqTask, r)
UploadInsertedStep == UploadInserted(SeqTask)
DeleteCalledStep == \E id \in RequestIds : DeleteCalled(SeqTask, id, DocsMaxOps)
DeleteLookedUpStep == \E r \in {"ok", "error"} : DeleteLookedUp(SeqTask, r)
DeleteRemovedStep == \E r \in {"ok", "error"} : DeleteRemoved(SeqTask, r)
DeleteDeletedStep == DeleteDeleted(SeqTask)
AddCalledStep == AddCalled(SeqTask, "d2", DocsMaxOps)
AddEmbeddedStep == \E r \in {"ok", "error"} : AddEmbedded(SeqTask, r)
AddInsertedStep == AddInserted(SeqTask)
ClearCalledStep == ClearCalled(SeqTask, DocsMaxOps)
ClearDeletedStep == ClearDeleted(SeqTask)
DocsQueryReceivedStep ==
    /\ task[SeqTask].op = "idle"
    /\ \E body \in DocsBodies : QueryReceived(SeqTask, body)
DocsDelayWakeStep == ProviderDelayWake(SeqTask) \/ RagDelayWake(SeqTask)
DocsTickStep ==
    /\ task[SeqTask].pc = "delayWait"
    /\ now < task[SeqTask].wakeAt
    /\ Tick(RATE_LIMIT_DELAY_MS, DocsMaxTime)

DocsNext ==
    \/ UploadCalledStep
    \/ UploadStoredStep
    \/ UploadEmbeddedStep
    \/ TableAppliesStep
    \/ UploadInsertedStep
    \/ DeleteCalledStep
    \/ DeleteLookedUpStep
    \/ DeleteRemovedStep
    \/ DeleteDeletedStep
    \/ AddCalledStep
    \/ AddEmbeddedStep
    \/ AddInsertedStep
    \/ ClearCalledStep
    \/ ClearDeletedStep
    \/ DocsQueryReceivedStep
    \/ QuerySelectIdsStep
    \/ QuerySelectNamesStep
    \/ QuerySelectTagsStep
    \/ QuerySelectAllStep
    \/ AgentCallsModelStep
    \/ AgentModelRespondsStep
    \/ AgentToolRespondsStep
    \/ DocsDelayWakeStep
    \/ DocsTickStep

SpecDocs == DocsInit /\ [][DocsNext]_vars

----------------------------------------------------------------------------
(* The administrative operations of two requests in flight at once: the    *)
(* routes are async handlers of one event loop, and every await (storage,  *)
(* embeddings, table) lets the other request run                           *)

(* the database gives every new row its own id (supabase-schema.sql line 6):
   the id of a row to come is in neither the table nor the cache, and no
   operation in flight names it *)
FreshRow(id) ==
    /\ id \notin Elems(store) \cup Elems(documents)
    /\ \A u \in Tasks : task[u].op = "idle" \/ dq[u].id # id

(* the operations the two requests have begun so far *)
OpsBegun == dq["t1"].ops + dq["t2"].ops

ConcUploadCalledStep ==
    /\ OpsBegun < ConcMaxOps
    /\ \E t \in Tasks, id \in DocIds :
          FreshRow(id) /\ UploadCalled(t, id, ConcMaxOps)
ConcUploadStoredStep ==
    \E t \in Tasks, r \in {"ok", "error"} : UploadStored(t, r)
ConcUploadEmbeddedStep ==
    \E t \in Tasks, r \in {"ok", "error"} : UploadEmbedded(t, r)
ConcTableAppliesStep ==
    \E t \in Tasks, r \in {"ok", "error"} : TableApplies(t, r)
ConcUploadInsertedStep == \E t \in Tasks : UploadInserted(t)
ConcDeleteCalledStep ==
    /\ OpsBegun < ConcMaxOps
    /\ \E t \in Tasks, id \in Elems(store) \cup {AbsentUuid, NotUuid} :
          DeleteCalled(t, id, ConcMaxOps)
ConcDeleteLookedUpStep ==
    \E t \in Tasks, r \in {"ok", "error"} : DeleteLookedUp(t, r)
ConcDeleteRemovedStep ==
    \E t \in Tasks, r \in {"ok", "error"} : DeleteRemoved(t, r)
ConcDeleteDeletedStep == \E t \in Tasks : DeleteDeleted(t)
ConcAddCalledStep ==
    /\ OpsBegun < ConcMaxOps
    /\ \E t \in Tasks :
          FreshRow("d2") /\ AddCalled(t, "d2", ConcMaxOps)
ConcAddEmbeddedStep ==
    \E t \in Tasks, r \in {"ok", "error"} : AddEmbedded(t, r)
ConcAddInsertedStep == \E t \in Tasks : AddInserted(t)
ConcClearCalledStep ==
    /\ OpsBegun < ConcMaxOps
    /\ \E t \in Tasks : ClearCalled(t, ConcMaxOps)
ConcClearDeletedStep == \E t \in Tasks : ClearDeleted(t)
ConcDelayWakeStep == \E t \in Tasks : RagDelayWake(t)
ConcTickStep ==
    /\ \E t \in Tasks : task[t].pc = "delayWait"
    /\ \A t \in Tasks : task[t].pc = "delayWait" => now < task[t].wakeAt
    /\ Tick(RATE_LIMIT_DELAY_MS, ConcMaxTime)

ConcNext ==
    \/ ConcUploadCalledStep
    \/ ConcUploadStoredStep
    \/ ConcUploadEmbeddedStep
    \/ ConcTableAppliesStep
    \/ ConcUploadInsertedStep
    \/ ConcDeleteCalledStep
    \/ ConcDeleteLookedUpStep
    \/ ConcDeleteRemovedStep
    \/ ConcDeleteDeletedStep
    \/ ConcAddCalledStep
    \/ ConcAddEmbeddedStep
    \/ ConcAddInsertedStep
    \/ ConcClearCalledStep
    \/ ConcClearDeletedStep
    \/ ConcDelayWakeStep
    \/ ConcTickStep

SpecConc == DocsInit /\ [][ConcNext]_vars

----------------------------------------------------------------------------
(* SpecLive: the two throttlers of a service that has served four paced    *)
(* calls, under concurrent callers and the scheduling of the event loop:   *)
(* the clock advances, a timer that is due                                 *)
(* fires, a fetch settles.  A call is issued while the time left covers    *)
(* the longest wait a call can meet (a window, then the delay twice).      *)

LongestWait == WINDOW_MS + 3 * RATE_LIMIT_DELAY_MS

LiveInit ==
    /\ Warm
    /\ config = ShippedConfig
    /\ Loaded(<<>>)

LiveProviderCallStep ==
    /\ now + LongestWait <= LiveMaxTime
    /\ \E t \in Tasks : ProviderCall(t, "doGenerate", WarmCalls + LiveMaxCalls)
LiveRagCallStep ==
    /\ now + LongestWait <= LiveMaxTime
    /\ \E t \in Tasks :
          RagCall(t, "getSambaNovaResponse", WarmCalls + LiveMaxCalls)
LiveCapWakeStep == \E t \in Tasks : ProviderCapWake(t)
LiveDelayWakeStep == \E t \in Tasks : ProviderDelayWake(t)
LiveRagDelayWakeStep == \E t \in Tasks : RagDelayWake(t)
LiveSettlesStep == \E t \in Tasks : CallSettles(t)
(* a timer that is due fires before the clock moves on *)
LiveTickStep ==
    /\ \A t \in Pending : now < task[t].wakeAt
    /\ Tick(RATE_LIMIT_DELAY_MS, LiveMaxTime)

LiveNext ==
    \/ LiveProviderCallStep
    \/ LiveRagCallStep
    \/ LiveCapWakeStep
    \/ LiveDelayWakeStep
    \/ LiveRagDelayWakeStep
    \/ LiveSettlesStep
    \/ LiveTickStep

LiveFairness ==
    /\ WF_vars(LiveTickStep)
    /\ \A t \in Tasks : /\ WF_vars(ProviderCapWake(t))
                        /\ WF_vars(ProviderDelayWake(t))
                        /\ WF_vars(RagDelayWake(t))
                        /\ WF_vars(CallSettles(t))

SpecLive == LiveInit /\ [][LiveNext]_vars /\ LiveFairness

----------------------------------------------------------------------------
(* SpecStart: the process from its start to listening or exit, over the    *)
(* values CONFIG.ENV can hold and the answers of the database              *)

StartInit ==
    /\ Fresh(StartTime, RATE_LIMIT_DELAY_MS)
    /\ config = ShippedConfig
    /\ \E table \in DocsStores :
          /\ store = table
          /\ bucket = StoredFiles(table)
    /\ documents = <<>>
    /\ embeddings = <<>>
    /\ rq = [t \in Tasks |-> IdleRq]
    /\ hq = [t \in Tasks |-> IdleHq]
    /\ dq = [t \in Tasks |-> IdleDq]
    /\ \E env \in Envs : server = Started(env)

StartNext ==
    \/ StartServerCalled
    \/ RagSystemInitialized
    \/ MastraInitialized
    \/ Listened
    \/ gracefulShutdown

SpecStart == StartInit /\ [][StartNext]_vars

----------------------------------------------------------------------------
(* SpecAssemble: two /query requests in one process, each followed up to   *)
(* its call of mastraRagSystem.query, arriving at any clock values and     *)
(* with any of the criteria below                                          *)

AssembleBodies ==
    {body \in Bodies : /\ ValidPrompt(body.prompt)
                       /\ body.documentIds \in {Absent, Given(<<"d1", "d2">>)}
                       /\ body.documentNames = Absent
                       /\ body.tags \in {Absent, Given(<<"x">>)}}

AssembleInit ==
    /\ Fresh(StartTime, RATE_LIMIT_DELAY_MS) \/ Warm
    /\ config = ShippedConfig
    /\ \E table \in Stores : Loaded(table)

AssembleReceivedStep ==
    \E t \in Tasks :
        /\ task[t].op = "idle"
        /\ \E body \in AssembleBodies : QueryReceived(t, body)

AssembleSelectIdsStep ==
    \E t \in Tasks, r \in {"ok", "error"} : QuerySelectIds(t, r)

AssembleSelectNamesStep ==
    \E t \in Tasks, r \in {"ok", "error"} : QuerySelectNames(t, r)

AssembleSelectTagsStep ==
    \E t \in Tasks, r \in {"ok", "error"} : QuerySelectTags(t, r)

AssembleSelectAllStep ==
    \E t \in Tasks, r \in {"ok", "error"} : QuerySelectAll(t, r)

AssembleTickStep == \E d \in TickSet : Tick(d, AssembleMaxTime)

AssembleNext ==
    \/ AssembleReceivedStep
    \/ AssembleSelectIdsStep
    \/ AssembleSelectNamesStep
    \/ AssembleSelectTagsStep
    \/ AssembleSelectAllStep
    \/ AssembleTickStep

SpecAssemble == AssembleInit /\ [][AssembleNext]_vars

----------------------------------------------------------------------------
(* One POST /query request selecting its documents while the upload or the *)
(* delete of another request is in flight: every getAllDocuments() of the  *)
(* handler is an await, and the other request runs between them.  The one  *)
(* embedding call of the upload comes more than the delay after the start  *)
(* of the process and does not wait.                                       *)

AdminTask == "t2"

ReadsBodies ==
    {body \in Bodies : /\ ValidPrompt(body.prompt)
                       /\ body.documentIds \in {Absent, Given(<<"d1", "d2">>)}
                       /\ body.documentNames = Absent
                       /\ body.tags \in {Absent, Given(<<"x">>)}
                       /\ body.userResponse = Absent}

ReadsReceivedStep ==
    /\ task[SeqTask].op = "idle"
    /\ hq[SeqTask].outcome = "none"
    /\ \E body \in ReadsBodies : QueryReceived(SeqTask, body)

(* the other request arrives while the query is being handled *)
ReadsUploadCalledStep ==
    /\ task[SeqTask].op = "httpQuery"
    /\ \E id \in DocIds :
          FreshRow(id) /\ UploadCalled(AdminTask, id, ReadsMaxOps)
ReadsUploadStoredStep == \E r \in {"ok", "error"} : UploadStored(AdminTask, r)
ReadsUploadEmbeddedStep == \E r \in {"ok", "error"} : UploadEmbedded(AdminTask, r)
ReadsTableAppliesStep == \E r \in {"ok", "error"} : TableApplies(AdminTask, r)
ReadsUploadInsertedStep == UploadInserted(AdminTask)
ReadsDeleteCalledStep ==
    /\ task[SeqTask].op = "httpQuery"
    /\ \E id \in Elems(store) \cup {AbsentUuid} :
          DeleteCalled(AdminTask, id, ReadsMaxOps)
ReadsDeleteLookedUpStep == \E r \in {"ok", "error"} : DeleteLookedUp(AdminTask, r)
ReadsDeleteRemovedStep == \E r \in {"ok", "error"} : DeleteRemoved(AdminTask, r)
ReadsDeleteDeletedStep == DeleteDeleted(AdminTask)

ReadsNext ==
    \/ ReadsReceivedStep
    \/ QuerySelectIdsStep
    \/ QuerySelectNamesStep
    \/ QuerySelectTagsStep
    \/ QuerySelectAllStep
    \/ ReadsUploadCalledStep
    \/ ReadsUploadStoredStep
    \/ ReadsUploadEmbeddedStep
    \/ ReadsTableAppliesStep
    \/ ReadsUploadInsertedStep
    \/ ReadsDeleteCalledStep
    \/ ReadsDeleteLookedUpStep
    \/ ReadsDeleteRemovedStep
    \/ ReadsDeleteDeletedStep

SpecReads == DocsInit /\ [][ReadsNext]_vars

----------------------------------------------------------------------------
(* One POST /query request up to the assembled prompt, on tables with      *)
(* documents longer than the excerpt                                       *)

ExcerptStores ==
    {<<>>, <<"d1">>, <<"d5">>, <<"d5", "d1">>, <<"d1", "d5", "d2">>,
     <<"d5", "d6", "d7", "d8">>}

ExcerptBodies ==
    [prompt : {Given(Prompt)},
     documentIds : {Absent, Given(<<"d1", "d2">>), Given(<<"d9">>)},
     documentNames : {Absent},
     tags : {Absent, Given(<<"w">>)},
     useAllDocuments : BOOLEAN,
     userResponse : FormatChoices \cup {Given(<<>>)}]

ExcerptInit ==
    /\ Fresh(StartTime, RATE_LIMIT_DELAY_MS)
    /\ config = ShippedConfig
    /\ \E table \in ExcerptStores : Loaded(table)

ExcerptReceivedStep ==
    /\ task[SeqTask].op = "idle"
    /\ \E body \in ExcerptBodies : QueryReceived(SeqTask, body)
ExcerptSelectIdsStep == \E r \in {"ok", "error"} : QuerySelectIds(SeqTask, r)
ExcerptSelectNamesStep == \E r \in {"ok", "error"} : QuerySelectNames(SeqTask, r)
ExcerptSelectTagsStep == \E r \in {"ok", "error"} : QuerySelectTags(SeqTask, r)
ExcerptSelectAllStep == \E r \in {"ok", "error"} : QuerySelectAll(SeqTask, r)

ExcerptNext ==
    \/ ExcerptReceivedStep
    \/ ExcerptSelectIdsStep
    \/ ExcerptSelectNamesStep
    \/ ExcerptSelectTagsStep
    \/ ExcerptSelectAllStep

SpecExcerpt == ExcerptInit /\ [][ExcerptNext]_vars

----------------------------------------------------------------------------
(* SpecResult: the two query implementations on one service, over every    *)
(* table, threshold and cap: SupabaseRAGSystem.query called repeatedly, or  *)
(* one POST /query that reaches MastraRAGSystem.query                      *)

ResultBodies ==
    {body \in Bodies : /\ ValidPrompt(body.prompt)
                       /\ body.documentIds = Absent
                       /\ body.documentNames = Absent
                       /\ body.tags = Absent
                       /\ body.userResponse = Absent}

ResultRankCalledStep == RagQueryCalled(SeqTask, RankMaxCalls)
ResultRankEmbeddedStep ==
    \E r \in {"ok", "error"}, q \in QueryEmbeddings : RagQueryEmbedded(SeqTask, r, q)
ResultRankGeneratedStep == \E r \in {"ok", "error"} : RagQueryGenerated(SeqTask, r)
ResultReceivedStep ==
    /\ task[SeqTask].op = "idle"
    /\ \E body \in ResultBodies : QueryReceived(SeqTask, body)
ResultSelectIdsStep == QuerySelectIds(SeqTask, "ok")
ResultSelectNamesStep == QuerySelectNames(SeqTask, "ok")
ResultSelectTagsStep == QuerySelectTags(SeqTask, "ok")
ResultSelectAllStep == \E r \in {"ok", "error"} : QuerySelectAll(SeqTask, r)
ResultAgentCallsModelStep == AgentCallsModel(SeqTask)
ResultAgentModelRespondsStep ==
    \E r \in {"ok", "error"}, next \in AgentTools \cup {"finish"} :
        AgentModelResponds(SeqTask, r, next)
ResultAgentToolRespondsStep ==
    \E r \in {"ok", "error"} : AgentToolResponds(SeqTask, r)
ResultDelayWakeStep == ProviderDelayWake(SeqTask) \/ RagDelayWake(SeqTask)
ResultTickStep ==
    /\ task[SeqTask].pc = "delayWait"
    /\ now < task[SeqTask].wakeAt
    /\ Tick(RATE_LIMIT_DELAY_MS, RankMaxTime)

ResultNext ==
    \/ ResultRankCalledStep
    \/ ResultRankEmbeddedStep
    \/ ResultRankGeneratedStep
    \/ ResultReceivedStep
    \/ ResultSelectIdsStep
    \/ ResultSelectNamesStep
    \/ ResultSelectTagsStep
    \/ ResultSelectAllStep
    \/ ResultAgentCallsModelStep
    \/ ResultAgentModelRespondsStep
    \/ ResultAgentToolRespondsStep
    \/ ResultDelayWakeStep
    \/ ResultTickStep

SpecResult == RankInit /\ [][ResultNext]_vars

----------------------------------------------------------------------------
(* Claims about the throttlers *)

PermitIdx == 1 .. Len(permits)

DelayOf(inst) ==
    IF inst = "provider" THEN rateLimitDelayMs ELSE config.rateLimitDelayMs

(* C1: on each throttler instance, any two permitted calls are recorded    *)
(* at least rateLimitDelayMs apart, whatever the interleaving of callers.  *)
C1_MinDelayBetweenPermits ==
    \A i, j \in PermitIdx :
        (i < j /\ permits[i].inst = permits[j].inst)
            => permits[j].time - permits[i].time >= DelayOf(permits[i].inst)

ProviderPermitsFrom(i) ==
    {j \in PermitIdx : /\ permits[j].inst = "provider"
                       /\ permits[j].time >= permits[i].time
                       /\ permits[j].time < permits[i].time + WINDOW_MS}

(* C2: the provider's throttler permits at most maxRequestsPerMinute calls *)
(* in any interval of 60,000 ms (stated for the shipped delay).            *)
C2_RollingWindowCap ==
    rateLimitDelayMs = RATE_LIMIT_DELAY_MS =>
        \A i \in PermitIdx :
            permits[i].inst = "provider" =>
                Cardinality(ProviderPermitsFrom(i)) <= maxRequestsPerMinute

(* C3: every external call is issued after an acquire on one and the same  *)
(* RateWindow, so calls of the two components are paced against each other *)
C3_OneSharedThrottler ==
    \A i, j \in PermitIdx :
        /\ permits[i].inst = permits[j].inst
        /\ i < j => permits[j].time - permits[i].time >= rateLimitDelayMs

FirstFiveWindow == permits[1].window

FirstFiveShareWindow ==
    /\ Len(permits) >= MAX_REQUESTS_PER_MINUTE
    /\ \A i \in 1 .. MAX_REQUESTS_PER_MINUTE : permits[i].window = FirstFiveWindow

BurstConfig == rateLimitDelayMs = 0 /\ maxRequestsPerMinute = 5

(* C10: with maxPerMinute = 5 and minDelayMs = 0, of 6 calls issued one    *)
(* after another the first 5 proceed without suspension; the 6th, issued   *)
(* while the window of the first 5 is open, is suspended, and it is        *)
(* recorded no earlier than 60,000 ms after the start of that window.      *)
C10_SixthCallWaitsForWindow ==
    BurstConfig =>
        /\ task[SeqTask].pc \in {"capWait", "delayWait"} => Len(permits) >= 5
        /\ (task[SeqTask].pc = "fetch" /\ Len(permits) <= 5) => ~task[SeqTask].slept
        /\ (Len(permits) >= 6 /\ FirstFiveShareWindow)
              => permits[6].time >= FirstFiveWindow + WINDOW_MS
        /\ (/\ Len(permits) = 6
            /\ FirstFiveShareWindow
            /\ task[SeqTask].pc = "fetch"
            /\ task[SeqTask].entered < FirstFiveWindow + WINDOW_MS)
              => task[SeqTask].slept

C10_Witness ==
    /\ BurstConfig
    /\ Len(permits) = 6
    /\ FirstFiveShareWindow
    /\ task[SeqTask].pc = "fetch"
    /\ task[SeqTask].slept
    /\ task[SeqTask].entered < FirstFiveWindow + WINDOW_MS
    /\ permits[6].time >= FirstFiveWindow + WINDOW_MS

----------------------------------------------------------------------------
(* Claims about the document selection of POST /query *)

Selected == Elems(hq[SeqTask].selectedDocuments)

SuppliedFilters ==
    (IF Supplied(hq[SeqTask].body.documentIds) THEN {"ids"} ELSE {})
        \cup (IF Supplied(hq[SeqTask].body.documentNames) THEN {"names"} ELSE {})
        \cup (IF Supplied(hq[SeqTask].body.tags) THEN {"tags"} ELSE {})

SatisfiesFilter(id, filter) ==
    CASE filter = "ids" -> IdMatches(id, hq[SeqTask].body.documentIds.items)
      [] filter = "names" -> NameMatches(id, hq[SeqTask].body.documentNames.items)
      [] filter = "tags" -> TagMatches(id, hq[SeqTask].body.tags.items)

SelectionDone ==
    /\ task[SeqTask].op = "httpQuery"
    /\ task[SeqTask].phase \in {"agent", "llm", "tool"}

(* C4: with two or more non-empty filters and useAllDocuments false, the   *)
(* selected documents are the intersection of the per-filter match sets:   *)
(* every selected document satisfies every supplied filter.                *)
C4_SelectionIsIntersection ==
    (/\ SelectionDone
     /\ ~hq[SeqTask].body.useAllDocuments
     /\ Cardinality(SuppliedFilters) >= 2)
        => Selected = {id \in Elems(store) :
                          \A filter \in SuppliedFilters : SatisfiesFilter(id, filter)}

NoCriteria ==
    /\ ~hq[SeqTask].body.documentIds.given
    /\ ~hq[SeqTask].body.documentNames.given
    /\ ~hq[SeqTask].body.tags.given
    /\ ~hq[SeqTask].body.useAllDocuments

(* C5: a request that supplies no ids, no names, no tags and does not set  *)
(* useAllDocuments selects the full document set, and its descriptions     *)
(* hold the entry saying that all documents were used.                     *)
C5_NoCriteriaSelectsAll ==
    (SelectionDone /\ NoCriteria)
        => /\ hq[SeqTask].selectedDocuments = store
           /\ hq[SeqTask].selectionCriteria =
                  <<Describe("All available documents", <<>>)>>

C5_Witness ==
    /\ SelectionDone
    /\ NoCriteria
    /\ Len(store) >= 2
    /\ hq[SeqTask].selectedDocuments = store
    /\ Len(hq[SeqTask].selectionCriteria) = 1

----------------------------------------------------------------------------
(* Claims about failures and the empty store *)

(* C6: a failure of the external embedding or generation call during a     *)
(* query becomes a returned result with the apology and confidence 0; it   *)
(* is never thrown to the caller.                                          *)
C6_FailureBecomesApology ==
    rq[SeqTask].failed
        => /\ rq[SeqTask].outcome = "returned"
           /\ rq[SeqTask].response = Apology
           /\ rq[SeqTask].confidence = 0

(* the request asked for all documents, read an empty table and went on to
   MastraRAGSystem.query, which has settled *)
EmptyStoreReplied ==
    /\ task[SeqTask].op = "httpQuery"
    /\ task[SeqTask].phase = "done"
    /\ hq[SeqTask].body.useAllDocuments
    /\ store = <<>>
    /\ hq[SeqTask].step >= 1

(* C7 as stated: useAllDocuments true on an empty store gives              *)
(* selectedCount 0 and the fixed "no relevant information" response,       *)
(* produced without calling the generation service, and no error.          *)
C7_EmptyStoreFixedResponse ==
    EmptyStoreReplied
        => /\ hq[SeqTask].success
           /\ hq[SeqTask].selectedCount = 0
           /\ hq[SeqTask].response = NoInfo
           /\ "doGenerate" \notin task[SeqTask].issued

(* C7 amended: useAllDocuments true on an empty store gives selectedCount  *)
(* 0 and a prompt without document data, which is sent to the generation   *)
(* service; the reply is a success that carries the generated text, or     *)
(* the apology with confidence 0 when the generation call failed; no       *)
(* error is thrown.                                                        *)
C7_EmptyStoreAsksModel ==
    EmptyStoreReplied
        => /\ hq[SeqTask].outcome = "replied"
           /\ hq[SeqTask].code = 200
           /\ hq[SeqTask].success
           /\ hq[SeqTask].selectedCount = 0
           /\ hq[SeqTask].enhancedPrompt =
                  EnhancedPrompt(<<>>, hq[SeqTask].body.prompt.items,
                                 hq[SeqTask].body.userResponse)
           /\ "doGenerate" \in task[SeqTask].issued
           /\ \/ hq[SeqTask].response = Generated
              \/ /\ hq[SeqTask].response = Apology
                 /\ hq[SeqTask].confidence = 0
                 /\ hq[SeqTask].failed

C7_Witness ==
    /\ EmptyStoreReplied
    /\ hq[SeqTask].code = 200
    /\ hq[SeqTask].selectedCount = 0
    /\ hq[SeqTask].response = Generated
    /\ hq[SeqTask].enhancedPrompt = Prompt
    /\ "doGenerate" \in task[SeqTask].issued

----------------------------------------------------------------------------
(* Claims about the ranking of SupabaseRAGSystem.query *)

Ranked == rq[SeqTask].relevantDocs

(* C8: the ranked matches are sorted by non-increasing similarity, number  *)
(* at most maxContextDocuments, and each has similarity of at least        *)
(* similarityThreshold, for every table, threshold and cap.                *)
C8_RankedSortedCappedFiltered ==
    rq[SeqTask].ranked
        => /\ \A i, j \in 1 .. Len(Ranked) :
                 i < j => Ranked[i].similarity >= Ranked[j].similarity
           /\ Len(Ranked) <= config.maxContextDocuments
           /\ \A i \in 1 .. Len(Ranked) :
                 Ranked[i].similarity >= config.similarityThreshold

PositionOf(id) == CHOOSE k \in 1 .. Len(embeddings) : embeddings[k].id = id

C8_Witness ==
    /\ rq[SeqTask].ranked
    /\ Len(Ranked) = 2
    /\ Len(embeddings) > Len(Ranked)
    /\ config.similarityThreshold > 0
    /\ Ranked[1].similarity > Ranked[2].similarity
    /\ PositionOf(Ranked[1].id) > PositionOf(Ranked[2].id)

(* C9: when the ranking yields no match, the query returns the "no         *)
(* relevant information" response with empty context, and the generation   *)
(* service is not called for that request.                                 *)
C9_NoMatchSkipsGeneration ==
    (rq[SeqTask].ranked /\ Ranked = <<>>)
        => /\ task[SeqTask].phase = "done"
           /\ rq[SeqTask].outcome = "returned"
           /\ rq[SeqTask].response = NoInfo
           /\ rq[SeqTask].context = <<>>
           /\ rq[SeqTask].confidence = 0
           /\ "getSambaNovaResponse" \notin task[SeqTask].issued

C9_Witness ==
    /\ rq[SeqTask].ranked
    /\ Ranked = <<>>
    /\ Len(embeddings) >= 2
    /\ config.maxContextDocuments > 0
    /\ rq[SeqTask].response = NoInfo
    /\ task[SeqTask].issued = {"getSambaNovaEmbeddings"}

----------------------------------------------------------------------------
(* Claims about the outcome of enforceRateLimit *)

Suspended(t) == task[t].pc \in {"capWait", "delayWait"}

Returned(t) == task[t].pc = "fetch"

(* C11: enforceRateLimit has no error outcome: a caller inside it is       *)
(* suspended on one of its two timers or has returned; and under the       *)
(* scheduling of the event loop every suspended caller eventually returns  *)
(* from it.                                                                *)
C11_EveryCallerReturns ==
    /\ [](\A t \in Tasks : task[t].op = "call" => Suspended(t) \/ Returned(t))
    /\ \A t \in Tasks : Suspended(t) ~> Returned(t)

C11_Witness ==
    \E t \in Tasks :
        /\ Returned(t)
        /\ task[t].acquired = "provider"
        /\ task[t].slept
        /\ lastResetTime > task[t].entered
        /\ now >= task[t].entered + RATE_LIMIT_DELAY_MS

----------------------------------------------------------------------------
(* Claims about the validation of POST /query *)

(* C12: a /query request whose prompt is missing or empty is answered with *)
(* the validation error, and no store read, throttler acquire or external  *)
(* call is made for it.                                                    *)
C12_EmptyPromptRejectedFirst ==
    (task[SeqTask].op = "httpQuery" /\ hq[SeqTask].body.prompt.items = <<>>)
        => /\ task[SeqTask].phase = "done"
           /\ hq[SeqTask].outcome = "replied"
           /\ hq[SeqTask].code = 400
           /\ ~hq[SeqTask].success
           /\ hq[SeqTask].reads = 0
           /\ task[SeqTask].acquired = "none"
           /\ task[SeqTask].entered = 0
           /\ task[SeqTask].issued = {}

C12_Witness ==
    /\ task[SeqTask].op = "httpQuery"
    /\ hq[SeqTask].body.prompt = Given(<<>>)
    /\ hq[SeqTask].code = 400
    /\ Len(store) >= 1

----------------------------------------------------------------------------
(* Claims about the document operations *)

DeleteReplied ==
    /\ dq[SeqTask].op = "delete"
    /\ dq[SeqTask].outcome = "replied"

(* C13: deleting an id that is not in the store, on a store that answers,  *)
(* gives the not-found outcome (deleteDocument returns false, the route    *)
(* answers 404 with success false), not an exception, and leaves the       *)
(* store, the bucket and the cache as they were.                           *)
C13_DeleteAbsentNotFound ==
    (/\ DeleteReplied
     /\ dq[SeqTask].id \notin Elems(dq[SeqTask].before.store)
     /\ dq[SeqTask].found # "unavailable")
        => /\ dq[SeqTask].result = "false"
           /\ dq[SeqTask].code = 404
           /\ ~dq[SeqTask].success
           /\ Snapshot = dq[SeqTask].before

TagsOnly(body) ==
    /\ Supplied(body.tags)
    /\ ~Supplied(body.documentIds)
    /\ ~Supplied(body.documentNames)
    /\ ~body.useAllDocuments

(* the request selects by tags, the last upload succeeded, and its         *)
(* document is the only one of the store with a tag of the request         *)
UploadedThenQueriedByTag ==
    /\ task[SeqTask].op = "httpQuery"
    /\ TagsOnly(hq[SeqTask].body)
    /\ dq[SeqTask].op = "upload"
    /\ dq[SeqTask].code = 200
    /\ TagMatches(dq[SeqTask].uploaded, hq[SeqTask].body.tags.items)
    /\ \A id \in Elems(dq[SeqTask].before.store) :
          ~TagMatches(id, hq[SeqTask].body.tags.items)

(* C15: after a document with tag t was uploaded into a store that has no  *)
(* other document with t, the reply to a /query with tags = [t] selects    *)
(* exactly that document (selectedCount = 1) and its descriptions have     *)
(* the entry that names the tags.                                          *)
C15_UploadedDocumentSelectedByTag ==
    (/\ UploadedThenQueriedByTag
     /\ hq[SeqTask].outcome = "replied"
     /\ hq[SeqTask].code = 200)
        => /\ hq[SeqTask].selectedDocuments = <<dq[SeqTask].uploaded>>
           /\ hq[SeqTask].selectedCount = 1
           /\ \E i \in 1 .. Len(hq[SeqTask].selectionCriteria) :
                 hq[SeqTask].selectionCriteria[i] =
                     Describe("Tags", hq[SeqTask].body.tags.items)

C15_Witness ==
    /\ UploadedThenQueriedByTag
    /\ hq[SeqTask].outcome = "replied"
    /\ hq[SeqTask].code = 200
    /\ Len(store) >= 2
    /\ hq[SeqTask].selectedCount = 1
    /\ hq[SeqTask].response = Generated

----------------------------------------------------------------------------
(* Claims about startup *)

(* a required value of CONFIG.ENV is undefined, empty or blank *)
MissingCredential == \E k \in RequiredEnvVars : IsMissing(server.env[k])

----------------------------------------------------------------------------
(* Claims about selection by a single criterion and about empty selections *)

(* the documents of the table with at least one tag of the request *)
Tagged ==
    {id \in Elems(store) :
        Elems(Doc(id).tags) \cap Elems(hq[SeqTask].body.tags.items) # {}}

(* C16: when tags is the only criterion supplied, the selection holds      *)
(* exactly the documents that have at least one of the request's tags,     *)
(* each once: no more and no fewer.                                        *)
C16_TagsOnlySelectsTagged ==
    (SelectionDone /\ TagsOnly(hq[SeqTask].body))
        => /\ Selected = Tagged
           /\ Len(hq[SeqTask].selectedDocuments) = Cardinality(Tagged)

C16_Witness ==
    /\ SelectionDone
    /\ TagsOnly(hq[SeqTask].body)
    /\ Len(hq[SeqTask].body.tags.items) = 2
    /\ store = <<"d1", "d2", "d3">>
    /\ hq[SeqTask].selectedDocuments = <<"d2", "d3">>

(* no document of the table matches a filter the request supplies *)
NothingMatches ==
    \A filter \in SuppliedFilters :
        \A id \in Elems(store) : ~SatisfiesFilter(id, filter)

(* one description per supplied filter, in the order ids, names, tags *)
SuppliedDescriptions ==
    (IF Supplied(hq[SeqTask].body.documentIds)
     THEN <<Describe("Document IDs", hq[SeqTask].body.documentIds.items)>>
     ELSE <<>>)
    \o (IF Supplied(hq[SeqTask].body.documentNames)
        THEN <<Describe("Document Names", hq[SeqTask].body.documentNames.items)>>
        ELSE <<>>)
    \o (IF Supplied(hq[SeqTask].body.tags)
        THEN <<Describe("Tags", hq[SeqTask].body.tags.items)>>
        ELSE <<>>)

(* C17: when at least one filter is supplied, useAllDocuments is not true  *)
(* and no document matches any of the supplied filters, the selection is   *)
(* empty (the handler does not fall back to all documents) and the         *)
(* descriptions are exactly those of the supplied filters.                 *)
C17_NoMatchSelectsNothing ==
    (/\ SelectionDone
     /\ ~hq[SeqTask].body.useAllDocuments
     /\ SuppliedFilters # {}
     /\ NothingMatches)
        => /\ hq[SeqTask].selectedDocuments = <<>>
           /\ hq[SeqTask].selectionCriteria = SuppliedDescriptions

C17_Witness ==
    /\ SelectionDone
    /\ ~hq[SeqTask].body.useAllDocuments
    /\ Cardinality(SuppliedFilters) >= 2
    /\ NothingMatches
    /\ Len(store) >= 1
    /\ hq[SeqTask].selectedDocuments = <<>>
    /\ Len(hq[SeqTask].selectionCriteria) = 2

----------------------------------------------------------------------------
(* Claims about context assembly *)

(* the request of task t has assembled its prompt *)
Assembled(t) ==
    /\ task[t].op = "httpQuery"
    /\ task[t].phase \in {"agent", "llm", "tool"}

SameArguments(t, u) ==
    /\ hq[t].selectedDocuments = hq[u].selectedDocuments
    /\ hq[t].body.prompt = hq[u].body.prompt
    /\ hq[t].body.userResponse = hq[u].body.userResponse

----------------------------------------------------------------------------
(* Claims about cosineSimilarity *)

Scored == rq[SeqTask].similarities

IsZero(v) == \A k \in 1 .. Len(v) : v[k] = 0

(* C19: cosineSimilarity(a, b) = cosineSimilarity(b, a): the similarity    *)
(* query() computed for the query embedding and a stored embedding is the  *)
(* value of cosineSimilarity with the two arguments exchanged.             *)
C19_CosineSymmetric ==
    rq[SeqTask].ranked
        => \A i \in 1 .. Len(Scored) :
              Scored[i].similarity =
                  cosineSimilarity(embeddings[i].embedding, rq[SeqTask].queryEmbedding)

C19_Witness ==
    /\ rq[SeqTask].ranked
    /\ \E i \in 1 .. Len(Scored) :
          /\ Magnitude(embeddings[i].embedding) > 0
          /\ Magnitude(rq[SeqTask].queryEmbedding) > Magnitude(embeddings[i].embedding)
          /\ Scored[i].similarity > 0
          /\ Scored[i].similarity < 1000

(* C20: cosineSimilarity is exactly 0 whenever the query embedding or the  *)
(* stored embedding is the zero vector, whatever the other vector is; the  *)
(* quotient by the product of the magnitudes is not taken then.            *)
C20_ZeroVectorGivesZero ==
    rq[SeqTask].ranked
        => \A i \in 1 .. Len(Scored) :
              (IsZero(rq[SeqTask].queryEmbedding) \/ IsZero(embeddings[i].embedding))
                  => Scored[i].similarity = 0

C20_Witness ==
    /\ rq[SeqTask].ranked
    /\ ~IsZero(rq[SeqTask].queryEmbedding)
    /\ Len(Scored) = 2
    /\ IsZero(embeddings[1].embedding)
    /\ Scored[1].similarity = 0
    /\ Scored[2].similarity # 0

----------------------------------------------------------------------------
(* Claims about the confidence of a query result *)

SumOfSimilarities ==
    SumTo([i \in 1 .. Len(Ranked) |-> Ranked[i].similarity], Len(Ranked))

(* C21: the confidence of every query result is within [0, 1] (0 .. 1000   *)
(* in thousandths): for SupabaseRAGSystem.query it is the mean similarity   *)
(* of the returned matches, rounded to the thousandth, and 0 in the        *)
(* no-match response; for POST /query it is the fixed default with the     *)
(* generated text and 0 with the apology.                                  *)
C21_ConfidenceInUnitInterval ==
    /\ rq[SeqTask].outcome = "returned" =>
          /\ rq[SeqTask].confidence \in 0 .. 1000
          /\ IF Ranked = <<>>
             THEN rq[SeqTask].confidence = 0
             ELSE /\ 2 * Len(Ranked) * rq[SeqTask].confidence
                        >= 2 * SumOfSimilarities - Len(Ranked)
                  /\ 2 * Len(Ranked) * rq[SeqTask].confidence
                        <= 2 * SumOfSimilarities + Len(Ranked)
    /\ (hq[SeqTask].outcome = "replied" /\ hq[SeqTask].code = 200) =>
          /\ hq[SeqTask].confidence \in 0 .. 1000
          /\ hq[SeqTask].response = Generated =>
                hq[SeqTask].confidence = DEFAULT_CONFIDENCE
          /\ hq[SeqTask].response = Apology => hq[SeqTask].confidence = 0

C21_Witness ==
    /\ rq[SeqTask].outcome = "returned"
    /\ Len(Ranked) = 2
    /\ Ranked[1].similarity > Ranked[2].similarity
    /\ rq[SeqTask].confidence > Ranked[2].similarity
    /\ rq[SeqTask].confidence < Ranked[1].similarity

----------------------------------------------------------------------------
(* Claims about failures of the store in the administrative operations *)

(* C22: when the table's insert fails in uploadFile or addDocuments, or    *)
(* its delete fails in deleteDocument or clearDocuments, the operation      *)
(* throws, the route answers 500 with success false, and the cache         *)
(* (documents and embeddings) is as it was when the operation was called.  *)
C22_StoreFailureReported ==
    (/\ dq[SeqTask].outcome = "replied"
     /\ dq[SeqTask].mutation \notin {"none", "ok"})
        => /\ dq[SeqTask].result = "thrown"
           /\ dq[SeqTask].code = 500
           /\ ~dq[SeqTask].success
           /\ documents = dq[SeqTask].before.documents
           /\ embeddings = dq[SeqTask].before.embeddings

C22_Witness ==
    /\ dq[SeqTask].op = "upload"
    /\ dq[SeqTask].outcome = "replied"
    /\ dq[SeqTask].mutation = "error"
    /\ dq[SeqTask].code = 500
    /\ Len(documents) >= 1
    /\ documents = dq[SeqTask].before.documents
    /\ StoragePath(dq[SeqTask].id) \in bucket

----------------------------------------------------------------------------
(* Claims about administrative operations in flight at once *)

AllCompletedWithoutError ==
    \A t \in Tasks :
        /\ task[t].op = "idle"
        /\ dq[t].done = dq[t].ops

CachedIds == Elems(documents)

EmbeddedIds == {embeddings[i].id : i \in 1 .. Len(embeddings)}

(* C23: once uploadFile, addDocuments, deleteDocument and clearDocuments   *)
(* calls of two requests in flight at once have all completed, each        *)
(* without error, the ids of the documents in the cache (this.documents    *)
(* and this.embeddings) are the ids of the rows of the table.              *)
C23_CacheMatchesStore ==
    AllCompletedWithoutError
        => /\ CachedIds = Elems(store)
           /\ EmbeddedIds = Elems(store)

----------------------------------------------------------------------------
(* Further claims about SambaNovaProvider.enforceRateLimit *)

(* C24: for every interleaving of callers of enforceRateLimit, the count   *)
(* of calls recorded in the current window, requestCount, never exceeds    *)
(* maxRequestsPerMinute.                                                    *)
C24_CountWithinCap == requestCount <= maxRequestsPerMinute

Larger(a, b) == IF a >= b THEN a ELSE b

(* C25: a call of enforceRateLimit that finds the cap reached with time    *)
(* left in the window is suspended, over the whole call, for at most the   *)
(* larger of the time left until the window resets and rateLimitDelayMs    *)
(* minus the time since the last request at entry, not for their sum.      *)
C25_AtMostOneWait ==
    (/\ task[SeqTask].call \in ProviderCalls
     /\ task[SeqTask].waitTime > 0)
        => task[SeqTask].waitTime + task[SeqTask].delayNeeded
              <= Larger(task[SeqTask].waitTime,
                        rateLimitDelayMs - task[SeqTask].tslr)

(* C26: when a lone caller's enforceRateLimit found requestCount >=        *)
(* maxRequestsPerMinute after the window check, then at its return the     *)
(* window was reset during the call (lastResetTime is not earlier than the *)
(* entry), the call was recorded after the wait and requestCount is 1.     *)
C26_CapReachedStartsNewWindow ==
    (/\ task[SeqTask].call \in ProviderCalls
     /\ task[SeqTask].pc = "fetch"
     /\ task[SeqTask].capReached)
        => /\ requestCount = 1
           /\ lastResetTime >= task[SeqTask].entered
           /\ lastRequestTime >= task[SeqTask].entered + task[SeqTask].waitTime

----------------------------------------------------------------------------
(* Further claims about the selection of documents in POST /query *)

(* C27: when useAllDocuments is true, the selection is every document of   *)
(* the store, whatever ids, names and tags the request also supplied, and  *)
(* the criteria are the descriptions of the supplied filters followed by   *)
(* "All available documents".                                              *)
C27_UseAllOverridesFilters ==
    (SelectionDone /\ hq[SeqTask].body.useAllDocuments)
        => /\ hq[SeqTask].selectedDocuments = store
           /\ hq[SeqTask].selectionCriteria =
                  Append(SuppliedDescriptions,
                         Describe("All available documents", <<>>))

(* useAllDocuments with ids that select one of three documents and tags *)
C27_Witness ==
    /\ SelectionDone
    /\ hq[SeqTask].body.useAllDocuments
    /\ hq[SeqTask].body.documentIds = Given(<<"d1", "d2">>)
    /\ hq[SeqTask].body.tags = Given(<<"x">>)
    /\ Len(store) >= 2
    /\ "d2" \notin Elems(store)
    /\ hq[SeqTask].selectedDocuments = store
    /\ Len(hq[SeqTask].selectionCriteria) >= 3

(* name occurs in text at some position, letters compared without case *)
ContainsIgnoringCase(text, name) ==
    \E start \in 1 .. Len(text) - Len(name) + 1 :
        \A k \in 1 .. Len(name) : Lower(text[start + k - 1]) = Lower(name[k])

SomeNameIn(id) ==
    \E i \in 1 .. Len(hq[SeqTask].body.documentNames.items) :
        \/ ContainsIgnoringCase(Doc(id).file_name,
                                hq[SeqTask].body.documentNames.items[i])
        \/ ContainsIgnoringCase(Doc(id).source,
                                hq[SeqTask].body.documentNames.items[i])

NamesApplied ==
    /\ task[SeqTask].op = "httpQuery"
    /\ task[SeqTask].phase = "tags"
    /\ Supplied(hq[SeqTask].body.documentNames)

(* C28: after the name filter of a request, a document is among the        *)
(* selected ones only if some supplied name is, without regard to case, a  *)
(* substring of its file_name or of its source; and when the name filter   *)
(* is the first filter of the request, every such document of the store    *)
(* is selected.                                                            *)
C28_NameFilterIsSubstringMatch ==
    NamesApplied
        => \A id \in Elems(store) :
              /\ id \in Elems(hq[SeqTask].selectedDocuments) => SomeNameIn(id)
              /\ (~Supplied(hq[SeqTask].body.documentIds) /\ SomeNameIn(id))
                    => id \in Elems(hq[SeqTask].selectedDocuments)

(* "AB" selects d1 by its file_name "Ab" and d3 by its source "aB" only,   *)
(* and not d2                                                              *)
C28_Witness ==
    /\ NamesApplied
    /\ ~Supplied(hq[SeqTask].body.documentIds)
    /\ hq[SeqTask].body.documentNames = Given(<< <<"A", "B">>, <<"z">> >>)
    /\ store = <<"d3", "d2", "d1">>
    /\ hq[SeqTask].selectedDocuments = <<"d3", "d1">>

----------------------------------------------------------------------------
(* Further claims about the ranking of SupabaseRAGSystem.query *)

RankedIds == {Ranked[i].id : i \in 1 .. Len(Ranked)}

(* C29: ranked matches of equal similarity are in the order of the corpus  *)
(* (this.embeddings), and a match that passed the threshold and was cut    *)
(* off by maxContextDocuments is, against every retained match, either     *)
(* less similar or equally similar and later in the corpus.                *)
C29_TiesKeepCorpusOrder ==
    rq[SeqTask].ranked
        => /\ \A i, j \in 1 .. Len(Ranked) :
                 (i < j /\ Ranked[i].similarity = Ranked[j].similarity)
                    => PositionOf(Ranked[i].id) < PositionOf(Ranked[j].id)
           /\ \A k \in 1 .. Len(rq[SeqTask].similarities) :
                 LET item == rq[SeqTask].similarities[k]
                 IN  (/\ item.similarity >= config.similarityThreshold
                      /\ item.id \notin RankedIds)
                        => \A i \in 1 .. Len(Ranked) :
                              \/ Ranked[i].similarity > item.similarity
                              \/ /\ Ranked[i].similarity = item.similarity
                                 /\ PositionOf(Ranked[i].id) < k

(* d3 and d1 are equally similar to the query; the cap of two keeps both   *)
(* in corpus order, and a cap of one keeps d3                              *)
C29_Witness ==
    /\ rq[SeqTask].ranked
    /\ store = <<"d3", "d2", "d1">>
    /\ rq[SeqTask].queryEmbedding = <<3, 4>>
    /\ \/ /\ config.maxContextDocuments = 2
          /\ Ranked[1].id = "d3"
          /\ Ranked[2].id = "d1"
          /\ Ranked[1].similarity = Ranked[2].similarity
       \/ /\ config.maxContextDocuments = 1
          /\ Len(Ranked) = 1
          /\ Ranked[1].id = "d3"

----------------------------------------------------------------------------
(* Claims about the course of one POST /query request *)

Stage(tk) ==
    IF tk.op # "httpQuery" THEN "Idle"
    ELSE IF tk.phase \in {"ids", "names", "tags", "all"} THEN "Selecting"
    ELSE IF tk.phase \in {"agent", "llm", "tool"} THEN "Generating"
    ELSE "Ended"

StageRank(tk) ==
    CASE Stage(tk) = "Idle" -> 0
      [] Stage(tk) = "Selecting" -> 1
      [] Stage(tk) = "Generating" -> 2
      [] Stage(tk) = "Ended" -> 3

QueryProgresses ==
    LET before == task[SeqTask]
        after == task'[SeqTask]
    IN  /\ StageRank(after) >= StageRank(before)
        /\ (\/ hq'[SeqTask].selectedDocuments # hq[SeqTask].selectedDocuments
            \/ hq'[SeqTask].selectionCriteria # hq[SeqTask].selectionCriteria)
              => Stage(before) = "Selecting"
        /\ hq'[SeqTask].enhancedPrompt # hq[SeqTask].enhancedPrompt
              => /\ Stage(before) = "Selecting"
                 /\ Stage(after) = "Generating"
        /\ (\/ after.issued # before.issued
            \/ after.entered # before.entered)
              => /\ Stage(after) = "Generating"
                 /\ before.phase # "all"
        /\ hq'[SeqTask].outcome # hq[SeqTask].outcome
              => /\ Stage(after) = "Ended"
                 /\ hq'[SeqTask].outcome = "replied"
                 /\ \/ hq'[SeqTask].code = 200 /\ hq'[SeqTask].success
                    \/ hq'[SeqTask].code \in {400, 500} /\ ~hq'[SeqTask].success
        /\ Stage(before) = "Ended" => UNCHANGED <<task, hq>>

(* C30: a POST /query request never goes back to an earlier stage: the     *)
(* selection changes only while documents are selected, the prompt is      *)
(* assembled once on leaving the selection, the throttler and the provider *)
(* are entered only after the assembly, the reply is made on entering the  *)
(* end, either 200 with success or an error without, and nothing of the    *)
(* request changes after the end.                                          *)
C30_QueryMovesForward == [][QueryProgresses]_vars

(* a request that selected, assembled, generated and answered 200 *)
C30_Witness ==
    /\ Stage(task[SeqTask]) = "Ended"
    /\ hq[SeqTask].code = 200
    /\ Len(hq[SeqTask].selectedDocuments) >= 2
    /\ Len(hq[SeqTask].selectionCriteria) >= 2
    /\ Len(hq[SeqTask].enhancedPrompt) > Len(Prompt)
    /\ "doGenerate" \in task[SeqTask].issued
    /\ hq[SeqTask].response = Generated

----------------------------------------------------------------------------
(* Claims about the assembled prompt of POST /query *)

(* what maxContextDocuments documents can put into a prompt: for each its  *)
(* file name, ":" and a newline, its excerpt and the two newlines of the   *)
(* join; then the query, the directive and the 13 pieces of the template   *)
PromptBudget ==
    MAX_CONTEXT_DOCUMENTS * (FILE_NAME_CHARS + 2 + EXCERPT_CHARS + 2)
        + Len(hq[SeqTask].body.prompt.items)
        + Len(hq[SeqTask].body.userResponse.items)
        + 13

(* C31: for a fixed query and directive the assembled prompt is no longer  *)
(* than a constant that does not depend on the number of documents in the  *)
(* store: here the length that maxContextDocuments documents with the      *)
(* longest file names and full excerpts give.                              *)
C31_PromptBounded ==
    Assembled(SeqTask) => Len(hq[SeqTask].enhancedPrompt) <= PromptBudget

Smaller(a, b) == IF a <= b THEN a ELSE b

(* the file name of a document, ":" and a newline, and the first           *)
(* min(1000, length) characters of its content                             *)
Contribution(id) ==
    Doc(id).file_name \o <<":", "\n">>
        \o [i \in 1 .. Smaller(EXCERPT_CHARS, Len(Doc(id).content)) |->
                Doc(id).content[i]]

(* where the contribution of the i-th selected document begins: after the  *)
(* two pieces of the heading, the earlier contributions and the two        *)
(* newlines after each of them                                             *)
RECURSIVE ContributionStart(_, _)
ContributionStart(docs, i) ==
    IF i = 1 THEN 3
    ELSE ContributionStart(docs, i - 1) + Len(Contribution(docs[i - 1])) + 2

(* C32: the assembled prompt holds, for each selected document in the      *)
(* order of the selection, its file name and exactly the first             *)
(* min(1000, length) characters of its content, followed by a newline; no  *)
(* character of the content beyond the first 1000 is in the prompt.        *)
C32_ExcerptIsLeadingPart ==
    (Assembled(SeqTask) /\ hq[SeqTask].selectedDocuments # <<>>)
        => LET docs == hq[SeqTask].selectedDocuments
               text == hq[SeqTask].enhancedPrompt
           IN  /\ \A i \in 1 .. Len(docs) :
                     LET first == ContributionStart(docs, i)
                         last == first + Len(Contribution(docs[i])) - 1
                     IN  /\ last < Len(text)
                         /\ SubSeq(text, first, last) = Contribution(docs[i])
                         /\ text[last + 1] = "\n"
               /\ "Z" \notin Elems(text)

(* a short, a long and a short document, selected in that order *)
C32_Witness ==
    /\ Assembled(SeqTask)
    /\ hq[SeqTask].selectedDocuments = <<"d1", "d5", "d2">>
    /\ Len(hq[SeqTask].enhancedPrompt) > EXCERPT_CHARS
    /\ Len(Doc("d5").content) > EXCERPT_CHARS

NothingSelected ==
    /\ Assembled(SeqTask)
    /\ hq[SeqTask].selectedDocuments = <<>>

(* every character of a file name or of a content of a document *)
DocumentCharacters ==
    UNION {Elems(Doc(id).file_name) \cup Elems(Doc(id).content) :
              id \in DocIds \cup LongDocIds}

(* C33: when no document was selected, the assembled prompt is the query   *)
(* itself when the request has no directive (or an empty one), and         *)
(* otherwise "Question: ", the query, "Output Format: ", the directive and *)
(* the fixed instruction; it holds no heading of document data and no      *)
(* text of a document.                                                     *)
C33_NoDocumentsPromptIsQuery ==
    NothingSelected
        => LET text == hq[SeqTask].enhancedPrompt
               query == hq[SeqTask].body.prompt.items
               directive == hq[SeqTask].body.userResponse
           IN  /\ (~directive.given \/ directive.items = <<>>) => text = query
               /\ (directive.given /\ directive.items # <<>>)
                     => text = <<"Question: ">> \o query
                                  \o <<"\n", "\n", "Output Format: ">>
                                  \o directive.items
                                  \o <<"\n", "\n",
                                        "Provide a direct answer in the requested format.">>
               /\ "Document Data:" \notin Elems(text)
               /\ Elems(text) \cap DocumentCharacters
                     \subseteq Elems(query) \cup Elems(directive.items)

(* ids that match nothing in a store that holds documents *)
C33_Witness ==
    /\ NothingSelected
    /\ Len(store) >= 2
    /\ hq[SeqTask].body.documentIds = Given(<<"d9">>)
    /\ hq[SeqTask].body.userResponse = Given(<<"c", "s", "v">>)
    /\ Len(hq[SeqTask].enhancedPrompt) > Len(Prompt)

----------------------------------------------------------------------------
(* Claims about the cache of SupabaseRAGSystem *)

(* C34: in every state, whatever uploads, adds, deletes and clears of two  *)
(* requests have run, failed or are in flight since the cache was loaded,  *)
(* this.documents and this.embeddings have the same length and the same    *)
(* document ids at the same positions.                                     *)
C34_CacheListsAligned ==
    /\ Len(documents) = Len(embeddings)
    /\ \A i \in 1 .. Len(embeddings) : embeddings[i].id = documents[i]

(* a delete and an upload both answered 200 and the cache holds documents *)
C34_Witness ==
    /\ \E t, u \in Tasks :
          /\ dq[t].op = "delete" /\ dq[t].outcome = "replied" /\ dq[t].success
          /\ dq[u].op = "upload" /\ dq[u].outcome = "replied" /\ dq[u].success
    /\ Len(documents) >= 1
    /\ Len(embeddings) >= 1

----------------------------------------------------------------------------
(* Claims about the reads of the table by one /query request               *)

(* lines 906-940 on one result of getAllDocuments() for all four reads *)
SelectOn(body, table) ==
    LET byIds == IF Supplied(body.documentIds)
                 THEN FilterDocs(table, {id \in Elems(table) :
                                           IdMatches(id, body.documentIds.items)})
                 ELSE <<>>
        byNames == IF Supplied(body.documentNames)
                   THEN Narrow(byIds, FilterDocs(table, {id \in Elems(table) :
                                   NameMatches(id, body.documentNames.items)}))
                   ELSE byIds
        byTags == IF Supplied(body.tags)
                  THEN Narrow(byNames, FilterDocs(table, {id \in Elems(table) :
                                   TagMatches(id, body.tags.items)}))
                  ELSE byNames
    IN  IF UseAll(body, byTags) THEN table ELSE byTags

(* the tables that existed while the query was handled: the other request
   arrived after the query, so the table before its one insert or delete
   and the table now *)
TablesDuringRequest ==
    {store} \cup (IF dq[AdminTask].ops > 0 THEN {dq[AdminTask].before.store}
                  ELSE {})

(* C35: the documents selected for one /query request are the selection    *)
(* algorithm applied to one table that existed at some moment during the   *)
(* request, also when an upload or a delete completes between the reads    *)
(* of the handler.                                                         *)
C35_SelectionFromOneTable ==
    SelectionDone
        => \E table \in TablesDuringRequest :
              hq[SeqTask].selectedDocuments = SelectOn(hq[SeqTask].body, table)

(* a criterion that is absent or an empty list *)
AbsentOrEmpty(list) == ~list.given \/ Len(list.items) = 0

(* C36: a criterion supplied as an empty list behaves like an absent one:  *)
(* a request whose documentIds, documentNames and tags are each absent or  *)
(* empty and whose useAllDocuments is not true selects all documents and   *)
(* reports the all-documents description.                                  *)
C36_EmptyListIsAbsent ==
    (/\ SelectionDone
     /\ AbsentOrEmpty(hq[SeqTask].body.documentIds)
     /\ AbsentOrEmpty(hq[SeqTask].body.documentNames)
     /\ AbsentOrEmpty(hq[SeqTask].body.tags)
     /\ ~hq[SeqTask].body.useAllDocuments)
        => /\ hq[SeqTask].selectedDocuments = store
           /\ hq[SeqTask].selectionCriteria =
                  <<Describe("All available documents", <<>>)>>

----------------------------------------------------------------------------
(* Claims about the storage bucket                                         *)

NoOperationInFlight ==
    \A t \in Tasks : task[t].op \notin {"upload", "add", "delete", "clear"}

(* C37: whenever no administrative operation is in flight, after any       *)
(* uploads, deletes and clears, failed ones included, the bucket holds a   *)
(* file at a path exactly when the table holds a record with that          *)
(* storage_path.                                                           *)
C37_BucketMatchesTable ==
    NoOperationInFlight
        => \A path \in bucket \cup StoredFiles(store) :
              path \in bucket <=> \E i \in 1 .. Len(store) :
                                     StoragePath(store[i]) = path

----------------------------------------------------------------------------
(* Claims about SupabaseRAGSystem.initialize                               *)

(* C38: when initialize() has returned without error, the cache holds      *)
(* exactly the documents of the table; when the table cannot be read,      *)
(* initialize() fails and does not return.                                 *)
C38_InitializedCacheIsTable ==
    server.ragSystem = "initialized"
        => /\ Elems(documents) = Elems(store)
           /\ {embeddings[i].id : i \in 1 .. Len(embeddings)} = Elems(store)

====
